---- MODULE Spec2Model ----
(***************************************************************************)
(* A state-machine model of the DDoS protection service: the IP manager    *)
(* (blacklist / whitelist with a Redis mirror), the three rate limiters    *)
(* (token bucket, Redis sliding window, in-memory sliding window) and the  *)
(* protection middleware that chains them.                                 *)
(*                                                                         *)
(* Time is a discrete clock `now` counted in ticks, TicksPerSec of them to  *)
(* the second, so that two calls less than a second apart can fall in the  *)
(* same whole second or in different ones.                                 *)
(***************************************************************************)
EXTENDS Integers, Sequences, FiniteSets, TLC

\* ------------------------------------------------------------------ bounds

\* The clock runs from 0 to MaxTime ticks.
MaxTime == 3
\* A breaker's counters are followed up to MaxRecorded.
MaxRecorded == 4
\* Blacklist durations handed to BlacklistIP range over 0..MaxDur ticks.
MaxDur == 2

\* The token-bucket burst ranges over 0..MaxBurst.
MaxBurst == 2
\* At most MaxCalls limiter calls per key are made at one instant.
MaxCalls == 3
\* The sliding-window limits range over 0..MaxLimit.
MaxLimit == 2
\* The sliding windows range over 1..MaxWindow seconds.
MaxWindow == 2
\* A Redis sorted set holds at most MaxZset entries.
MaxZset == 4
\* The middleware handles at most MaxRequests requests.
MaxRequests == 3

\* Ticks per second of the model clock.
TicksPerSec == 2

\* A time.Duration counts nanoseconds.
NanosPerTick == 1000000000 \div TicksPerSec

\* Client keys (IP addresses).
Keys == {"10.0.0.1", "10.0.1.2"}

\* An HTTP request as the middleware and the handlers read it: the peer
\* address, the headers X-Forwarded-For, X-Real-IP and User-Agent ("" when
\* absent), the URL, the method, the body size and the JSON body (<<>> when
\* there is none).
Req(addr, xff, xri, ua, method, path, size, body) ==
    [RemoteAddr |-> addr, XForwardedFor |-> xff, XRealIP |-> xri,
     UserAgent |-> ua, Method |-> method, Path |-> path, RawQuery |-> "",
     ContentLength |-> size, Body |-> body]

\* The requests the clients send: a browser at 10.0.0.1; a client at
\* 10.0.1.2 behind a proxy, once with a bare OPTIONS request and once with a
\* blocked user agent; and the operator's calls that whitelist and blacklist
\* 10.0.1.2.
Requests ==
    { Req("10.0.0.1:4000", "", "", "Mozilla/5.0", "GET", "/app.js", 0, <<>>),
      Req("10.0.0.9:4000", "", "10.0.1.2", "", "OPTIONS", "/", 0, <<>>),
      Req("10.0.0.9:4000", "10.0.1.2, 10.0.0.9", "", "Curl/8.0", "GET", "/", 0, <<>>),
      Req("10.0.0.1:4000", "", "", "Mozilla/5.0", "POST", "/api/v1/ip/whitelist",
          17, [IP |-> "10.0.1.2"]),
      Req("10.0.0.1:4000", "", "", "Mozilla/5.0", "POST", "/api/v1/ip/blacklist",
          30, [IP |-> "10.0.1.2", Duration |-> MaxDur * NanosPerTick]) }

\* Two requests of the key 10.0.1.2 for an image, alike but for the
\* User-Agent header, which the second lacks.
MonoRequests ==
    { Req("10.0.0.9:4000", "", "10.0.1.2", "Mozilla/5.0", "GET", "/logo.png", 0, <<>>),
      Req("10.0.0.9:4000", "", "10.0.1.2", "", "GET", "/logo.png", 0, <<>>) }

\* The operator's management calls and the client's probe: blacklist
\* 10.0.1.2 as the test script does ("duration": 3600) and with the duration
\* left out, blacklist and whitelist a key that is no IP address, remove
\* 10.0.1.2 from the blacklist, and GET /health sent by 10.0.1.2.
MgmtRequests ==
    { Req("10.0.0.1:4000", "", "", "Mozilla/5.0", "POST", "/api/v1/ip/blacklist",
          37, [IP |-> "10.0.1.2", Duration |-> 3600]),
      Req("10.0.0.1:4000", "", "", "Mozilla/5.0", "POST", "/api/v1/ip/blacklist",
          18, [IP |-> "10.0.1.2", Duration |-> 0]),
      Req("10.0.0.1:4000", "", "", "Mozilla/5.0", "POST", "/api/v1/ip/blacklist",
          19, [IP |-> "not-an-ip", Duration |-> 0]),
      Req("10.0.0.1:4000", "", "", "Mozilla/5.0", "POST", "/api/v1/ip/whitelist",
          19, [IP |-> "not-an-ip"]),
      Req("10.0.0.1:4000", "", "", "Mozilla/5.0", "DELETE",
          "/api/v1/ip/blacklist/10.0.1.2", 0, <<>>),
      Req("10.0.0.9:4000", "", "10.0.1.2", "Mozilla/5.0", "GET", "/health", 0, <<>>) }

\* A browser's GET for a style sheet under /static/.
RingRequest ==
    Req("10.0.0.1:4000", "", "", "Mozilla/5.0", "GET", "/static/site.css", 0, <<>>)

\* Two requests from the address of RingRequest: a GET whose headers
\* X-Forwarded-For, X-Real-IP, X-Originating-IP and User-Agent all carry a
\* "javascript:" URL, and the same request as OPTIONS.
FreqRequests ==
    { Req("10.0.0.1:4000", "10.0.0.1, javascript:", "javascript:", "javascript:",
          m, "/", 0, <<>>)
          @@ [XOriginatingIP |-> "javascript:"] : m \in {"GET", "OPTIONS"} }
    \cup {RingRequest}

\* Every request of the model.
AllRequests ==
    Requests \cup MonoRequests \cup MgmtRequests \cup {RingRequest} \cup FreqRequests

\* The user agents the configuration blocks: blocked_user_agents.
BlockedUserAgents == {"curl", "wget"}

\* Every string that reaches the IP manager as a key: the client keys, and
\* the keys under which the traffic monitor files a request.
Addrs ==
    Keys \cup {r.RemoteAddr : r \in Requests}
         \cup ({r.XForwardedFor : r \in Requests} \ {""})
         \cup ({r.XRealIP : r \in Requests} \ {""})
         \cup {r.Body.IP : r \in {q \in MgmtRequests : q.Body # <<>>}}

\* Absent map entry / absent Redis key, and a Redis key without a TTL.
NoEntry == -1
NoExpiry == -2

Min(a, b) == IF a <= b THEN a ELSE b
Max(a, b) == IF a >= b THEN a ELSE b

\* ------------------------------------------------------------------ strings

\* strings.Index(s, sub) + 1: the first position at which sub occurs in s, 0
\* when it does not occur.
Index(s, sub) ==
    LET P == {i \in 1..(Len(s) - Len(sub) + 1) : SubSeq(s, i, i + Len(sub) - 1) = sub}
    IN  IF P = {} THEN 0 ELSE CHOOSE i \in P : \A j \in P : i <= j

\* strings.Contains
Contains(s, sub) == Index(s, sub) # 0

\* The rest of s from position i on.
From(s, i) == SubSeq(s, i, Len(s))

\* strings.Split(s, sep)
RECURSIVE Split(_, _)
Split(s, sep) ==
    IF Index(s, sep) = 0 THEN <<s>>
    ELSE <<SubSeq(s, 1, Index(s, sep) - 1)>>
         \o Split(From(s, Index(s, sep) + Len(sep)), sep)

\* strings.TrimSpace, for strings whose white space is blanks.
RECURSIVE TrimSpace(_)
TrimSpace(s) ==
    IF s = "" THEN s
    ELSE IF SubSeq(s, 1, 1) = " " THEN TrimSpace(From(s, 2))
    ELSE IF SubSeq(s, Len(s), Len(s)) = " " THEN TrimSpace(SubSeq(s, 1, Len(s) - 1))
    ELSE s

\* strings.Cut(s, sep): <<before, after, found>>
Cut(s, sep) ==
    IF Index(s, sep) = 0 THEN <<s, "", FALSE>>
    ELSE <<SubSeq(s, 1, Index(s, sep) - 1), From(s, Index(s, sep) + Len(sep)), TRUE>>

\* strings.Join(parts, sep)
RECURSIVE Join(_, _)
Join(parts, sep) ==
    IF parts = <<>> THEN ""
    ELSE IF Len(parts) = 1 THEN parts[1]
    ELSE parts[1] \o sep \o Join(Tail(parts), sep)

\* The lower-case form of s, as a case-insensitive match reads it.
RECURSIVE ToLower(_)
ToLower(s) ==
    IF s = "" THEN s
    ELSE (IF Index("ABCDEFGHIJKLMNOPQRSTUVWXYZ", SubSeq(s, 1, 1)) = 0
          THEN SubSeq(s, 1, 1)
          ELSE SubSeq("abcdefghijklmnopqrstuvwxyz",
                      Index("ABCDEFGHIJKLMNOPQRSTUVWXYZ", SubSeq(s, 1, 1)),
                      Index("ABCDEFGHIJKLMNOPQRSTUVWXYZ", SubSeq(s, 1, 1))))
         \o ToLower(From(s, 2))

\* A map with a growing key set: the count under k, 0 when k is absent, ...
Count(m, k) == IF k \in DOMAIN m THEN m[k] ELSE 0

\* ... and m[k]++.
Increment(m, k) ==
    IF k \in DOMAIN m THEN [m EXCEPT ![k] = @ + 1] ELSE m @@ (k :> 1)

\* The map with no keys.
EmptyMap == [k \in {} |-> 0]

\* ------------------------------------------------------------------ state

VARIABLES
    now,             \* wall clock, in ticks
    ret,             \* the last call and what it returned
    \* IPManager
    redisEnabled,    \* the Redis client is not nil (a Redis host is configured)
    redisUp,         \* whether a Redis command issued now succeeds
    blacklistedIPs,  \* IPManager.blacklistedIPs: key -> expiry, NoEntry when absent
    whitelistedIPs,  \* IPManager.whitelistedIPs: the keys mapped to true
    redisBlacklist,  \* Redis keys "blacklist:<ip>": expiry, NoExpiry or NoEntry
    redisWhitelist,  \* Redis keys "whitelist:<ip>" that exist
    lease,           \* per key: <<t0, d>> of the last successful BlacklistIP
                     \* not followed by a blacklist or remove call, else <<>>
    \* TokenBucketLimiter
    tbLimit,         \* requests per minute (limit = tbLimit / 60 per second)
    tbBurst,         \* burst
    tbLimiters,      \* limiters: key -> [tokens, last], <<>> when absent
    tbCalls,         \* per key: Allow calls made at the current instant
    tbAdmits,        \* per key: Allow calls admitted at the current instant
    tbFresh,         \* per key: the bucket was created at the current instant
    \* RedisLimiter
    rlLimit,         \* limit
    rlWindow,        \* window, in whole seconds
    rlZset,          \* Redis sorted set "rate_limit:<key>": its scores, in order
    rlTTL,           \* expiry of that Redis key, NoEntry when it has none
    rlAdmitTimes,    \* per key: the times, within the last window, at which
                     \* Redis answered and Allow returned true
    \* SlidingWindowLimiter
    swLimit,         \* limit
    swWindow,        \* window, in ticks
    swRequests,      \* requests: key -> the stored timestamps (<<>> when absent)
    swFirst,         \* per key: time of the first call since the key was fresh
    swCalls,         \* per key: Allow calls since the key was fresh
    swAdmits,        \* per key: of those, the calls that returned true
    \* ProtectionService
    config,          \* config.Protection, the fields the service reads
    resp,            \* the response to the last request
    requestsSent,    \* the requests the middleware has handled
    \* RequestFilter
    requestHistory,  \* requestHistory: peer address -> timestamps
    \* BotnetDetector
    requestPatterns, \* requestPatterns: key -> IPBehavior, <<>> when absent
    networkRanges,   \* networkRanges: network -> IPCount
    geographicSpread,\* globalPatterns.GeographicSpread: country -> count
    networkSpread,   \* globalPatterns.NetworkSpread: network -> count
    burstPatterns,   \* burstPatterns: burst key -> IPCount
    \* TrafficMonitor
    requestCounts,   \* requestCounts: monitor key -> count
    responseTimes,   \* responseTimes: monitor key -> durations, in ms
    errorCounts,     \* errorCounts: monitor key -> count
    alertChan,       \* alertChan: the alerts queued, oldest first
    \* HealthChecker and its callers
    breaker,         \* the CircuitBreaker of one registered check
    cbHist,          \* what was recorded: the failures since the last success,
                     \* the successes since the breaker last became half-open
    cbMu,            \* CircuitBreaker.mu: read holds, write holder, the
                     \* goroutines blocked in Lock
    calls            \* per goroutine: the call it is in and where it stands

ipVars == <<redisEnabled, redisUp, blacklistedIPs, whitelistedIPs,
            redisBlacklist, redisWhitelist, lease>>

tbVars == <<tbLimit, tbBurst, tbLimiters, tbCalls, tbAdmits, tbFresh>>

rlVars == <<rlLimit, rlWindow, rlZset, rlTTL, rlAdmitTimes>>

swVars == <<swLimit, swWindow, swRequests, swFirst, swCalls, swAdmits>>

rfVars == <<requestHistory>>

bdVars == <<requestPatterns, networkRanges, geographicSpread, networkSpread,
            burstPatterns>>

tmVars == <<requestCounts, responseTimes, errorCounts, alertChan>>

hcVars == <<breaker, cbHist, cbMu, calls>>

\* The middleware's own variables and those of the stages only it drives.
pipeVars == <<config, resp, requestsSent, rfVars, bdVars, tmVars>>

\* What an operation of one component leaves alone: the other components.
nonIpVars == <<tbVars, rlVars, swVars, pipeVars, hcVars>>
nonTbVars == <<ipVars, rlVars, swVars, pipeVars, hcVars>>
nonRlVars == <<ipVars, tbVars, swVars, pipeVars, hcVars>>
nonSwVars == <<ipVars, tbVars, rlVars, pipeVars, hcVars>>
nonHcVars == <<ipVars, tbVars, rlVars, swVars, pipeVars>>

vars == <<now, ret, ipVars, tbVars, rlVars, swVars, pipeVars, hcVars>>

Ret(op, ip, ok, err) == [op |-> op, ip |-> ip, ok |-> ok, err |-> err]

\* ------------------------------------------------------------- IP manager

\* client.Exists(ctx, "blacklist:"+ip) > 0 : the key is there and its TTL has
\* not run out.
RedisBlacklistExists(ip) ==
    \/ redisBlacklist[ip] = NoExpiry
    \/ redisBlacklist[ip] # NoEntry /\ now < redisBlacklist[ip]

\* client.Set(ctx, key, "1", duration): a positive duration is the TTL, a
\* duration of 0 stores the key with no expiry.
RedisSetExpiry(d) == IF d > 0 THEN now + d ELSE NoExpiry

\* IPManager.IsWhitelisted
IsWhitelisted(ip) ==
    IF ip \in whitelistedIPs THEN TRUE
    ELSE IF redisEnabled THEN redisUp /\ ip \in redisWhitelist
    ELSE FALSE

\* The local-cache half of IsBlacklisted: an entry that has not expired.
LocalBlacklistLive(ip) ==
    blacklistedIPs[ip] # NoEntry /\ now < blacklistedIPs[ip]

\* A mutant of IsBlacklisted: the whitelist is not consulted first.
IsBlacklistedNoWhitelist(ip) ==
    IF LocalBlacklistLive(ip) THEN TRUE
    ELSE IF redisEnabled THEN redisUp /\ RedisBlacklistExists(ip)
    ELSE FALSE

\* A mutant of IsBlacklisted: a Redis error counts as "blacklisted".
IsBlacklistedFailClosed(ip) ==
    IF IsWhitelisted(ip) THEN FALSE
    ELSE IF LocalBlacklistLive(ip) THEN TRUE
    ELSE IF redisEnabled THEN ~redisUp \/ RedisBlacklistExists(ip)
    ELSE FALSE

\* IPManager.IsBlacklisted, the value it returns.
IsBlacklisted(ip) ==
    IF IsWhitelisted(ip) THEN FALSE
    ELSE IF LocalBlacklistLive(ip) THEN TRUE
    ELSE IF redisEnabled THEN redisUp /\ RedisBlacklistExists(ip)
    ELSE FALSE

\* IPManager.IsBlacklisted, the state it leaves: an expired local entry that
\* the lookup meets is deleted (only when the key is not whitelisted).
BlacklistAfterLookup(ip) ==
    IF /\ ~IsWhitelisted(ip)
       /\ blacklistedIPs[ip] # NoEntry
       /\ ~(now < blacklistedIPs[ip])
    THEN [blacklistedIPs EXCEPT ![ip] = NoEntry]
    ELSE blacklistedIPs

IsBlacklistedCall(ip) ==
    /\ ret' = Ret("IsBlacklisted", ip, IsBlacklisted(ip), "")
    /\ blacklistedIPs' = BlacklistAfterLookup(ip)
    /\ UNCHANGED <<now, nonIpVars, redisEnabled, redisUp, whitelistedIPs,
                   redisBlacklist, redisWhitelist, lease>>

\* IPManager.BlacklistIP, the error it returns: the whitelist conflict for a
\* key of the local whitelist map, else the error of the Redis write.
BlacklistIPError(ip) ==
    IF ip \in whitelistedIPs THEN "whitelisted"
    ELSE IF redisEnabled /\ ~redisUp THEN "redis"
    ELSE ""

\* A mutant of BlacklistIPLocal: a failed Redis write undoes the local one.
BlacklistIPLocalRollback(bl, ip, d) ==
    IF ip \in whitelistedIPs \/ (redisEnabled /\ ~redisUp)
    THEN bl ELSE [bl EXCEPT ![ip] = now + d]

\* IPManager.BlacklistIP, the local map it leaves when it starts from bl.
BlacklistIPLocal(bl, ip, d) ==
    IF ip \in whitelistedIPs THEN bl ELSE [bl EXCEPT ![ip] = now + d]

\* IPManager.BlacklistIP, the Redis keys it leaves.
BlacklistIPRedis(ip, d) ==
    IF ip \notin whitelistedIPs /\ redisEnabled /\ redisUp
    THEN [redisBlacklist EXCEPT ![ip] = RedisSetExpiry(d)]
    ELSE redisBlacklist

\* The lease a BlacklistIP call opens when it succeeds, and closes otherwise.
BlacklistIPLease(ip, d) ==
    [lease EXCEPT ![ip] = IF BlacklistIPError(ip) = "" THEN <<now, d>> ELSE <<>>]

\* IPManager.BlacklistIP
BlacklistIP(ip, d) ==
    /\ blacklistedIPs' = BlacklistIPLocal(blacklistedIPs, ip, d)
    /\ redisBlacklist' = BlacklistIPRedis(ip, d)
    /\ lease' = BlacklistIPLease(ip, d)
    /\ ret' = Ret("BlacklistIP", ip, BlacklistIPError(ip) = "", BlacklistIPError(ip))
    /\ UNCHANGED <<now, nonIpVars, redisEnabled, redisUp, whitelistedIPs, redisWhitelist>>

\* IPManager.WhitelistIP
WhitelistIP(ip) ==
    /\ whitelistedIPs' = whitelistedIPs \cup {ip}
    /\ IF redisEnabled /\ redisUp
       THEN redisWhitelist' = redisWhitelist \cup {ip}
       ELSE UNCHANGED redisWhitelist
    /\ ret' = IF redisEnabled /\ ~redisUp
              THEN Ret("WhitelistIP", ip, FALSE, "redis")
              ELSE Ret("WhitelistIP", ip, TRUE, "")
    /\ UNCHANGED <<now, nonIpVars, redisEnabled, redisUp, blacklistedIPs, redisBlacklist, lease>>

\* A mutant of RemoveFromBlacklistLocal: the key is deleted in Redis only.
RemoveFromBlacklistRedisOnly(bl, ip) == bl

\* IPManager.RemoveFromBlacklist, the local map it leaves when it starts
\* from bl.
RemoveFromBlacklistLocal(bl, ip) == [bl EXCEPT ![ip] = NoEntry]

\* IPManager.RemoveFromBlacklist
RemoveFromBlacklist(ip) ==
    /\ blacklistedIPs' = RemoveFromBlacklistLocal(blacklistedIPs, ip)
    /\ IF redisEnabled /\ redisUp
       THEN redisBlacklist' = [redisBlacklist EXCEPT ![ip] = NoEntry]
       ELSE UNCHANGED redisBlacklist
    /\ ret' = IF redisEnabled /\ ~redisUp
              THEN Ret("RemoveFromBlacklist", ip, FALSE, "redis")
              ELSE Ret("RemoveFromBlacklist", ip, TRUE, "")
    /\ lease' = [lease EXCEPT ![ip] = <<>>]
    /\ UNCHANGED <<now, nonIpVars, redisEnabled, redisUp, whitelistedIPs, redisWhitelist>>

\* IPManager.RemoveFromWhitelist
RemoveFromWhitelist(ip) ==
    /\ whitelistedIPs' = whitelistedIPs \ {ip}
    /\ IF redisEnabled /\ redisUp
       THEN redisWhitelist' = redisWhitelist \ {ip}
       ELSE UNCHANGED redisWhitelist
    /\ ret' = IF redisEnabled /\ ~redisUp
              THEN Ret("RemoveFromWhitelist", ip, FALSE, "redis")
              ELSE Ret("RemoveFromWhitelist", ip, TRUE, "")
    /\ UNCHANGED <<now, nonIpVars, redisEnabled, redisUp, blacklistedIPs, redisBlacklist, lease>>

\* IPManager.CleanupExpiredEntries: deletes the entries with now.After(expiry).
ExpiredEntriesRemoved ==
    [ip \in Addrs |->
        IF blacklistedIPs[ip] # NoEntry /\ now > blacklistedIPs[ip]
        THEN NoEntry ELSE blacklistedIPs[ip]]

CleanupExpiredEntries ==
    /\ blacklistedIPs' = ExpiredEntriesRemoved
    /\ ret' = Ret("CleanupExpiredEntries", "", TRUE, "")
    /\ UNCHANGED <<now, nonIpVars, redisEnabled, redisUp, whitelistedIPs,
                   redisBlacklist, redisWhitelist, lease>>


\* --------------------------------------------------- token-bucket limiter

\* Tokens are counted in units of 1/TokenScale, so that the refill of one
\* tick, limit * (1 / TicksPerSec) = tbLimit / (60 * TicksPerSec) tokens, is a
\* whole number of units.
TokenScale == 60 * TicksPerSec

\* The requests-per-minute values the limiter is configured with.
RateSet == {60, 90}

\* rate.Limiter.last of a limiter that has not admitted anything: the zero time.
ZeroTime == -3

\* rate.NewLimiter(limit, burst): no tokens, last at the zero time.
NewLimiter == [tokens |-> 0, last |-> ZeroTime]

\* A mutant of Advance: the refill is not clamped to the burst.
AdvanceNoClamp(lim) ==
    IF lim.last = ZeroTime THEN tbBurst * TokenScale
    ELSE lim.tokens + (now - lim.last) * tbLimit

\* rate.Limiter.advance: the tokens available now, the refill of the elapsed
\* time added and clamped to the burst.  Since the zero time the elapsed time
\* saturates, which fills the bucket.
Advance(lim) ==
    IF lim.last = ZeroTime THEN tbBurst * TokenScale
    ELSE Min(tbBurst * TokenScale, lim.tokens + (now - lim.last) * tbLimit)

\* rate.Limiter.Allow, the answer: one token is there to take.
LimiterAllows(lim) == tbBurst >= 1 /\ Advance(lim) >= TokenScale

\* A mutant of LimiterAfter: an admitted call takes no token.
LimiterAfterNoTake(lim) ==
    IF LimiterAllows(lim)
    THEN [tokens |-> Advance(lim), last |-> now]
    ELSE lim

\* rate.Limiter.Allow, the limiter it leaves: an admitted call takes one token
\* and moves last to now; a refused call changes nothing.
LimiterAfter(lim) ==
    IF LimiterAllows(lim)
    THEN [tokens |-> Advance(lim) - TokenScale, last |-> now]
    ELSE lim

\* TokenBucketLimiter.Allow: the key's limiter, created when missing.
GetLimiter(key) ==
    IF tbLimiters[key] = <<>> THEN NewLimiter ELSE tbLimiters[key]

TokenBucketAllows(key) == LimiterAllows(GetLimiter(key))

\* The effect of TokenBucketLimiter.Allow(key) on the limiter's variables.
TokenBucketStep(key) ==
    /\ tbLimiters' = [tbLimiters EXCEPT ![key] = LimiterAfter(GetLimiter(key))]
    /\ tbCalls' = [tbCalls EXCEPT ![key] = @ + 1]
    /\ tbAdmits' = [tbAdmits EXCEPT ![key] =
                       IF TokenBucketAllows(key) THEN @ + 1 ELSE @]
    /\ tbFresh' = [tbFresh EXCEPT ![key] = @ \/ tbLimiters[key] = <<>>]
    /\ UNCHANGED <<tbLimit, tbBurst>>

\* TokenBucketLimiter.Allow(ctx, key)
TokenBucketAllow(key) ==
    /\ tbCalls[key] < MaxCalls
    /\ TokenBucketStep(key)
    /\ ret' = Ret("TokenBucketLimiter.Allow", key, TokenBucketAllows(key), "")
    /\ UNCHANGED <<now, nonTbVars>>


\* --------------------------------------------------------- Redis limiter

\* now.Unix(): the whole seconds of the clock.
Unix(t) == t \div TicksPerSec

\* ZRemRangeByScore(key, "0", now.Add(-window).Unix()): the entries whose
\* score is at most the cutoff go, the others stay.
ZRemOld(z, cutoff) == SelectSeq(z, LAMBDA score : score > cutoff)

\* A mutant of RedisAllowResult: a failed Redis call refuses the request.
RedisAllowFailClosed(failed, count) ==
    IF failed THEN FALSE ELSE count < rlLimit

\* RedisLimiter.Allow, the answer: true when the pipeline failed, else
\* whether the entries counted before the insertion are fewer than the limit.
RedisAllowResult(failed, count) ==
    IF failed THEN TRUE ELSE count < rlLimit

\* The entries that stay when the pipeline of Allow runs at the current time.
RedisKept(key) == ZRemOld(rlZset[key], Unix(now) - rlWindow)

\* The admissions that lie in the window that ends now.
InWindow(times, t) == SelectSeq(times, LAMBDA a : a > t - rlWindow * TicksPerSec)

\* The value Allow(key) returns at the current time.
RedisAllows(key) == RedisAllowResult(~redisUp, Len(RedisKept(key)))

\* The effect of RedisLimiter.Allow(key) on Redis: the pipeline removes the
\* old entries, counts, adds the current second and sets the TTL; when Redis
\* is unreachable nothing is written.
RedisLimiterStep(key) ==
    /\ IF redisUp
       THEN /\ rlZset' = [rlZset EXCEPT ![key] = Append(RedisKept(key), Unix(now))]
            /\ rlTTL' = [rlTTL EXCEPT ![key] = now + rlWindow * TicksPerSec]
            /\ rlAdmitTimes' = [rlAdmitTimes EXCEPT ![key] =
                   IF RedisAllows(key)
                   THEN Append(InWindow(@, now), now)
                   ELSE InWindow(@, now)]
       ELSE UNCHANGED <<rlZset, rlTTL, rlAdmitTimes>>
    /\ UNCHANGED <<rlLimit, rlWindow>>

\* RedisLimiter.Allow(ctx, key)
RedisLimiterAllow(key) ==
    /\ Len(RedisKept(key)) < MaxZset
    /\ RedisLimiterStep(key)
    /\ ret' = Ret("RedisLimiter.Allow", key, RedisAllows(key),
                  IF redisUp THEN "" ELSE "redis")
    /\ UNCHANGED <<now, nonRlVars>>

\* ------------------------------------------------ sliding-window limiter

\* The stored timestamps that are After(now - window).
ValidRequests(key, window) ==
    SelectSeq(swRequests[key], LAMBDA t : t > now - window)

\* A mutant of SlidingWindowAllows: the limit itself is admitted on top.
SlidingWindowAllowsOffByOne(key) ==
    ~(Len(ValidRequests(key, swWindow)) > swLimit)

\* SlidingWindowLimiter.Allow, the answer.
SlidingWindowAllows(key) ==
    ~(Len(ValidRequests(key, swWindow)) >= swLimit)

\* SlidingWindowLimiter.Allow(ctx, key): a refused call stores nothing, an
\* admitted call stores the valid timestamps and the current time.
SlidingWindowAllow(key) ==
    /\ swCalls[key] < MaxCalls
    /\ swRequests' = [swRequests EXCEPT ![key] =
           IF SlidingWindowAllows(key)
           THEN Append(ValidRequests(key, swWindow), now)
           ELSE @]
    /\ swFirst' = [swFirst EXCEPT ![key] = IF @ = NoEntry THEN now ELSE @]
    /\ swCalls' = [swCalls EXCEPT ![key] = @ + 1]
    /\ swAdmits' = [swAdmits EXCEPT ![key] =
                       IF SlidingWindowAllows(key) THEN @ + 1 ELSE @]
    /\ ret' = Ret("SlidingWindowLimiter.Allow", key, SlidingWindowAllows(key), "")
    /\ UNCHANGED <<now, nonSwVars, swLimit, swWindow>>

\* SlidingWindowLimiter.Cleanup: keeps the timestamps of the last two windows
\* and deletes the keys that have none left.
SlidingWindowCleanup ==
    /\ swRequests' = [k \in Keys |-> ValidRequests(k, 2 * swWindow)]
    /\ swFirst' = [k \in Keys |->
           IF swRequests[k] # <<>> /\ ValidRequests(k, 2 * swWindow) = <<>>
           THEN NoEntry ELSE swFirst[k]]
    /\ swCalls' = [k \in Keys |->
           IF swRequests[k] # <<>> /\ ValidRequests(k, 2 * swWindow) = <<>>
           THEN 0 ELSE swCalls[k]]
    /\ swAdmits' = [k \in Keys |->
           IF swRequests[k] # <<>> /\ ValidRequests(k, 2 * swWindow) = <<>>
           THEN 0 ELSE swAdmits[k]]
    /\ ret' = Ret("SlidingWindowLimiter.Cleanup", "", TRUE, "")
    /\ UNCHANGED <<now, nonSwVars, swLimit, swWindow>>

\* ----------------------------------------------------------- request filter

\* Whether the literal lit stands at position i of t.
At(t, i, lit) ==
    i >= 1 /\ i + Len(lit) - 1 <= Len(t) /\ SubSeq(t, i, i + Len(lit) - 1) = lit

\* The position after the blanks (\s*) that start at position i of t.
RECURSIVE SkipBlanks(_, _)
SkipBlanks(t, i) == IF At(t, i, " ") THEN SkipBlanks(t, i + 1) ELSE i

\* The position after the word characters (\w*) that start at position i.
RECURSIVE SkipWord(_, _)
SkipWord(t, i) ==
    IF i <= Len(t)
       /\ Contains("abcdefghijklmnopqrstuvwxyzABCDEFGHIJKLMNOPQRSTUVWXYZ0123456789_",
                   SubSeq(t, i, i))
    THEN SkipWord(t, i + 1) ELSE i

\* A match of (w1|w2|...).*rest for the words of the set.
WordThen(t, words, rest) ==
    \E w \in words : \E i \in 1..Len(t) :
        At(t, i, w) /\ Contains(From(t, i + Len(w)), rest)

\* A match of (or|and).*a\s*=\s*a
TautologyAfter(t, a) ==
    \E w \in {"or", "and"} : \E i \in 1..Len(t) : \E j \in 1..Len(t) :
        /\ At(t, i, w)
        /\ j >= i + Len(w)
        /\ At(t, j, a)
        /\ At(t, SkipBlanks(t, j + Len(a)), "=")
        /\ At(t, SkipBlanks(t, SkipBlanks(t, j + Len(a)) + 1), a)

\* RequestFilter.hasMaliciousPattern: the patterns of initMaliciousPatterns,
\* in their order; the first six, the ninth and the eleventh ignore case.
hasMaliciousPattern(text) ==
    LET lower == ToLower(text)
        tag == From(lower, Index(lower, "<script") + 7)
    IN  \/ WordThen(lower,
                    {"union", "select", "insert", "update", "delete", "drop",
                     "create", "alter", "exec", "execute"}, "from")
        \/ TautologyAfter(lower, "1")
        \/ TautologyAfter(lower, "'1'")
        \/ /\ Contains(lower, "<script")
           /\ Contains(tag, ">")
           /\ Contains(From(tag, Index(tag, ">") + 1), "</script>")
        \/ Contains(lower, "javascript:")
        \/ \E i \in 1..Len(text) :
              /\ At(lower, i, "on")
              /\ SkipWord(text, i + 2) > i + 2
              /\ At(text, SkipBlanks(text, SkipWord(text, i + 2)), "=")
        \/ Contains(text, "../")
        \/ Contains(text, "..\\")
        \/ \E w \in {"cmd", "command", "exec", "system", "shell"} :
              Contains(lower, w)
        \/ \E e \in {"php", "asp", "jsp", "cgi", "sh", "bat", "exe", "scr"} :
              Contains(text, "." \o e)
        \/ \E w \in {"nmap", "nikto", "sqlmap", "burp", "w3af", "nessus"} :
              Contains(lower, w)

\* The strings of the requests that the patterns are matched against: the
\* URLs and the header values.
Texts ==
    {r.Path \o r.RawQuery : r \in AllRequests}
    \cup {r.UserAgent : r \in AllRequests}
    \cup {r.XForwardedFor : r \in AllRequests}
    \cup {r.XRealIP : r \in AllRequests}

\* hasMaliciousPattern on the strings of the requests, evaluated once.
hasMaliciousPatternMemo == [t \in Texts |-> hasMaliciousPattern(t)]

\* The match of one blocked-user-agent pattern "(?i)" + pattern, for the
\* configured patterns, which are plain lower-case words.
matchesUserAgent(pattern, userAgent) == Contains(ToLower(userAgent), pattern)

\* matchesUserAgent on the user agents of the requests, evaluated once.
matchesUserAgentMemo ==
    [u \in {r.UserAgent : r \in AllRequests} |->
        {p \in BlockedUserAgents : matchesUserAgent(p, u)}]

\* RequestFilter.isBlockedUserAgent
isBlockedUserAgent(userAgent) ==
    \E ua \in config.RequestFilter.BlockedUserAgents :
        ua \in matchesUserAgentMemo[userAgent]

\* req.Header[name] for the canonical header names, "" when absent.
HeaderValue(req, name) ==
    CASE name = "X-Forwarded-For" -> req.XForwardedFor
      [] name = "X-Real-Ip" -> req.XRealIP
      [] name = "User-Agent" -> req.UserAgent
      [] name = "X-Originating-Ip" ->
            IF "XOriginatingIP" \in DOMAIN req THEN req.XOriginatingIP ELSE ""
      [] OTHER -> ""

\* RequestFilter.hasHeaderManipulation: it looks up "host", "content-type"
\* and "content-length" in a map whose keys are canonical (Host,
\* Content-Type, ...), and for NUL bytes, which the HTTP server has refused
\* before the handler runs.
hasHeaderManipulation(req) == FALSE

\* RequestFilter.checkSuspiciousHeaders: the configured headers whose value
\* matches a malicious pattern, then "header_manipulation".
checkSuspiciousHeaders(req) ==
    {h \in config.RequestFilter.SuspiciousHeaders :
        HeaderValue(req, h) # "" /\ hasMaliciousPatternMemo[HeaderValue(req, h)]}
    \cup (IF hasHeaderManipulation(req) THEN {"header_manipulation"} ELSE {})

\* The timestamps of a history that are After(now - historyWindow), the
\* window being 5 minutes.
RecentRequests(ip) ==
    IF ip \in DOMAIN requestHistory
    THEN SelectSeq(requestHistory[ip], LAMBDA t : t > now - 5 * 60 * TicksPerSec)
    ELSE <<>>

\* RequestFilter.isHighFrequency: more than maxRequestsPerWindow (100).
isHighFrequency(ip) == Len(RecentRequests(ip)) > 100

\* RequestFilter.isSuspiciousMethod
isSuspiciousMethod(method) ==
    \E m \in {"TRACE", "DEBUG", "OPTIONS"} : ToLower(method) = ToLower(m)

\* isSuspiciousMethod on the methods of the requests, evaluated once.
isSuspiciousMethodMemo ==
    [m \in {r.Method : r \in AllRequests} |-> isSuspiciousMethod(m)]

\* RequestFilter.hasMissingHeaders
hasMissingHeaders(req) == req.UserAgent = ""

\* RequestFilter.updateRequestHistory
updateRequestHistory(ip) ==
    IF ip \in DOMAIN requestHistory
    THEN [requestHistory EXCEPT ![ip] = Append(RecentRequests(ip), now)]
    ELSE requestHistory @@ (ip :> <<now>>)

FilterResult(allowed, risk, log, recorded) ==
    [Allowed |-> allowed, Blocked |-> ~allowed, RiskScore |-> risk,
     ShouldLog |-> log, Recorded |-> recorded]

\* The risk score FilterRequest has added up when it reaches the frequency
\* check, and when it reaches the final decision.
RiskBeforeMethod(req) ==
    Cardinality(checkSuspiciousHeaders(req)) * 10
    + (IF isHighFrequency(req.RemoteAddr) THEN 20 ELSE 0)

RiskAtEnd(req) ==
    RiskBeforeMethod(req)
    + (IF isSuspiciousMethodMemo[req.Method] THEN 15 ELSE 0)
    + (IF hasMissingHeaders(req) THEN 10 ELSE 0)

\* RequestFilter.FilterRequest: the result, and whether the call reached
\* updateRequestHistory (Recorded).
FilterRequest(req) ==
    IF req.ContentLength > config.RequestFilter.MaxRequestSize
    THEN FilterResult(FALSE, 50, FALSE, FALSE)
    ELSE IF isBlockedUserAgent(req.UserAgent)
    THEN FilterResult(FALSE, 30, FALSE, FALSE)
    ELSE IF hasMaliciousPatternMemo[req.Path \o req.RawQuery]
    THEN FilterResult(FALSE, Cardinality(checkSuspiciousHeaders(req)) * 10 + 80,
                      checkSuspiciousHeaders(req) # {}, FALSE)
    ELSE IF isHighFrequency(req.RemoteAddr) /\ RiskBeforeMethod(req) > 50
    THEN FilterResult(FALSE, RiskBeforeMethod(req), TRUE, FALSE)
    ELSE FilterResult(~(RiskAtEnd(req) > 100), RiskAtEnd(req),
                      RiskAtEnd(req) > 0, TRUE)

\* RequestFilter.CleanupExpiredEntries: the histories keep their recent
\* timestamps, and an address with none left is deleted.
RequestFilterCleanup ==
    [ip \in {a \in DOMAIN requestHistory : RecentRequests(a) # <<>>} |->
        RecentRequests(ip)]

\* ---------------------------------------------------------- botnet detector

\* BotnetDetector.getCountryFromIP
getCountryFromIP(ip) ==
    IF Len(Split(ip, ".")) >= 2
    THEN Join(SubSeq(Split(ip, "."), 1, 2), ".")
    ELSE "unknown"

\* BotnetDetector.getNetworkFromIP
getNetworkFromIP(ip) ==
    IF Len(Split(ip, ".")) >= 3
    THEN Join(SubSeq(Split(ip, "."), 1, 3), ".")
    ELSE "unknown"

\* getCountryFromIP and getNetworkFromIP on the client keys, evaluated once.
getCountryFromIPMemo == [ip \in Keys |-> getCountryFromIP(ip)]

getNetworkFromIPMemo == [ip \in Keys |-> getNetworkFromIP(ip)]

\* A mutant of Ring: nothing is dropped.
RingUnbounded(s, x) == Append(s, x)

\* append, then drop the oldest entry when more than 100 are held.
Ring(s, x) == IF Len(s) + 1 > 100 THEN Tail(Append(s, x)) ELSE Append(s, x)

\* The sum of the entries of s, added up by halves.
RECURSIVE Sum(_)
Sum(s) ==
    IF s = <<>> THEN 0
    ELSE IF Len(s) = 1 THEN s[1]
    ELSE Sum(SubSeq(s, 1, Len(s) \div 2)) + Sum(SubSeq(s, Len(s) \div 2 + 1, Len(s)))

\* BotnetDetector.getOrCreateIPBehavior, the fields that are read again.
getOrCreateIPBehavior(ip) ==
    IF requestPatterns[ip] # <<>> THEN requestPatterns[ip]
    ELSE [RequestCount |-> 0, LastSeen |-> now, UserAgents |-> {},
          ResponseTimes |-> <<>>, RequestIntervals |-> <<>>,
          HasJavascript |-> FALSE, HasCSS |-> FALSE, HasImages |-> FALSE]

\* BotnetDetector.updateBehavioralIndicators: the indicators a path sets,
\* of those that are read again.
updateBehavioralIndicators(path) ==
    [HasJavascript |-> Contains(path, "/static/") \/ Contains(path, ".js"),
     HasCSS |-> Contains(path, ".css"),
     HasImages |-> Contains(path, ".png") \/ Contains(path, ".jpg")
                                          \/ Contains(path, ".gif")]

\* updateBehavioralIndicators on the paths of the requests, evaluated once.
updateBehavioralIndicatorsMemo ==
    [path \in {r.Path : r \in AllRequests} |-> updateBehavioralIndicators(path)]

\* BotnetDetector.updateIPBehavior.  Response times are in ms, intervals in
\* ticks.
updateIPBehavior(b, userAgent, path, responseTime) ==
    [RequestCount |-> b.RequestCount + 1,
     LastSeen |-> now,
     UserAgents |-> b.UserAgents \cup {userAgent},
     ResponseTimes |-> Ring(b.ResponseTimes, responseTime),
     RequestIntervals |-> Ring(b.RequestIntervals, now - b.LastSeen),
     HasJavascript |-> b.HasJavascript
                       \/ updateBehavioralIndicatorsMemo[path].HasJavascript,
     HasCSS |-> b.HasCSS \/ updateBehavioralIndicatorsMemo[path].HasCSS,
     HasImages |-> b.HasImages \/ updateBehavioralIndicatorsMemo[path].HasImages]

\* One indicator with its risk score, when its condition holds.
Indicator(cond, name, score) ==
    IF cond THEN <<[name |-> name, score |-> score]>> ELSE <<>>

\* BotnetDetector.analyzeBehavior.  The averages are integer divisions; an
\* interval of one tick is 1000 / TicksPerSec ms.
analyzeBehavior(b) ==
    Indicator(b.RequestCount > 20 /\ ~b.HasJavascript, "No JavaScript requests", 20)
    \o Indicator(b.RequestCount > 20 /\ ~b.HasCSS, "No CSS requests", 15)
    \o Indicator(b.RequestCount > 50, "Very high request frequency", 25)
    \o Indicator(b.RequestCount > 20 /\ ~b.HasImages, "No image requests", 10)
    \o Indicator(Cardinality(b.UserAgents) = 1 /\ b.RequestCount > 20,
                 "Single user agent", 10)
    \o Indicator(Len(b.ResponseTimes) > 20
                 /\ Sum(b.ResponseTimes) \div Len(b.ResponseTimes) < 5,
                 "Suspiciously fast response times", 15)
    \o Indicator(Len(b.RequestIntervals) > 20
                 /\ (Sum(b.RequestIntervals) * (1000 \div TicksPerSec))
                        \div Len(b.RequestIntervals) < 50,
                 "Suspiciously regular intervals", 15)

\* BotnetDetector.analyzeNetwork, given the IPCount it has just incremented.
analyzeNetwork(ipCount) ==
    Indicator(ipCount > 100, "High IP count from network", 30)

\* BotnetDetector.analyzeTiming over the behaviours: those seen within the
\* analysis window of 60 s are counted.
analyzeTiming(patterns) ==
    Indicator(Cardinality({k \in DOMAIN patterns :
                              /\ patterns[k] # <<>>
                              /\ patterns[k].LastSeen > now - 60 * TicksPerSec}) > 1000
              /\ ((now \div TicksPerSec) % 60) % 10 = 0,
              "Coordinated timing pattern", 40)

\* BotnetDetector.analyzeGlobalPatterns
analyzeGlobalPatterns(geo, net) ==
    Indicator(Cardinality(DOMAIN geo) > 50, "Unusual geographic distribution", 25)
    \o Indicator(Cardinality(DOMAIN net) > 100, "Unusual network distribution", 30)

\* The key of analyzeCoordination: minute and ten-second slot of the clock.
burstKey ==
    ToString(((now \div TicksPerSec) \div 60) % 60) \o "-"
    \o ToString(((now \div TicksPerSec) % 60) \div 10)

\* BotnetDetector.analyzeCoordination, given the IPCount just incremented.
analyzeCoordination(ipCount) ==
    Indicator(ipCount > 100, "Coordinated burst attack", 50)

\* The indicators of one AnalyzeRequest call, in the order the five analyses
\* append them; the behaviour of the key and the maps are those the call has
\* updated.
Indicators(ip, userAgent, path, responseTime) ==
    LET behavior == updateIPBehavior(getOrCreateIPBehavior(ip), userAgent, path,
                                     responseTime)
    IN
    analyzeBehavior(behavior)
    \o analyzeNetwork(Count(networkRanges, getNetworkFromIPMemo[ip]) + 1)
    \o analyzeTiming([requestPatterns EXCEPT ![ip] = behavior])
    \o analyzeGlobalPatterns(Increment(geographicSpread, getCountryFromIPMemo[ip]),
                             Increment(networkSpread, getNetworkFromIPMemo[ip]))
    \o analyzeCoordination(Count(burstPatterns, burstKey) + 1)

RiskScore(indicators) == Sum([i \in 1..Len(indicators) |-> indicators[i].score])

\* A mutant of calculateFinalDecision: the confidence is not capped at 1.0.
calculateFinalDecisionNoCap(indicators) ==
    [RiskScore |-> RiskScore(indicators),
     Indicators |-> indicators,
     Confidence |-> RiskScore(indicators) + 10 * Len(indicators),
     IsBotnet |-> RiskScore(indicators) + 10 * Len(indicators) >= 160
                  \/ RiskScore(indicators) >= 300]

\* BotnetDetector.calculateFinalDecision.  Confidence is kept in units of
\* 1/200: risk / 200 + 0.05 per indicator, capped at 1.0.
calculateFinalDecision(indicators) ==
    LET risk == RiskScore(indicators)
        confidence == Min(200, risk + 10 * Len(indicators))
    IN  [RiskScore |-> risk,
         Indicators |-> indicators,
         Confidence |-> IF risk >= 300 THEN Max(160, confidence) ELSE confidence,
         IsBotnet |-> confidence >= 160 \/ risk >= 300]

\* BotnetDetector.AnalyzeRequest, the analysis it returns.
AnalyzeRequest(ip, userAgent, path, responseTime) ==
    calculateFinalDecision(Indicators(ip, userAgent, path, responseTime))

\* ---------------------------------------------------------- traffic monitor

\* TrafficMonitor.getClientIP: the raw header value, or the peer address
\* with its port.
MonitorClientIP(req) ==
    IF req.XForwardedFor # "" THEN req.XForwardedFor
    ELSE IF req.XRealIP # "" THEN req.XRealIP
    ELSE req.RemoteAddr

\* The response times of a monitor key after one more is recorded.
RecordedTimes(ip, responseTime) ==
    Ring(IF ip \in DOMAIN responseTimes THEN responseTimes[ip] ELSE <<>>,
         responseTime)

\* TrafficMonitor.checkAlerts: the alerts it raises, in order.
checkAlerts(ip, count, times) ==
    (IF count > config.Monitoring.AlertThreshold
     THEN <<[Type |-> "high_request_rate", IP |-> ip]>> ELSE <<>>)
    \o (IF Len(times) > 10 /\ Sum(times) \div Len(times) < 10
        THEN <<[Type |-> "suspicious_response_time", IP |-> ip]>> ELSE <<>>)

\* A mutant of SendAlerts: a full channel makes room by dropping its oldest
\* alert.
RECURSIVE SendAlertsDropOldest(_, _)
SendAlertsDropOldest(chan, alerts) ==
    IF alerts = <<>> THEN chan
    ELSE SendAlertsDropOldest(
             Append(IF Len(chan) < 100 THEN chan ELSE Tail(chan), Head(alerts)),
             Tail(alerts))

\* A send on alertChan that does not block: the alert is dropped when the
\* channel holds 100 alerts.
RECURSIVE SendAlerts(_, _)
SendAlerts(chan, alerts) ==
    IF alerts = <<>> THEN chan
    ELSE SendAlerts(IF Len(chan) < 100 THEN Append(chan, Head(alerts)) ELSE chan,
                    Tail(alerts))

\* ------------------------------------------------------ protection service

\* ProtectionService.getClientIP
getClientIP(req) ==
    IF req.XForwardedFor # "" THEN TrimSpace(Split(req.XForwardedFor, ",")[1])
    ELSE IF req.XRealIP # "" THEN TrimSpace(req.XRealIP)
    ELSE Cut(req.RemoteAddr, ":")[1]

\* getClientIP on the requests, evaluated once.
getClientIPMemo == [r \in AllRequests |-> getClientIP(r)]

\* time.Duration(config.Protection.IPBlacklist.BlacklistDuration) * time.Second
BlacklistDuration == config.IPBlacklist.BlacklistDuration * TicksPerSec

\* A mutant of ShouldAutoBlacklist: the threshold itself is enough.
ShouldAutoBlacklistAtThreshold(ip, requestCount) ==
    IF ~config.IPBlacklist.Enabled THEN FALSE
    ELSE IF IsWhitelisted(ip) THEN FALSE
    ELSE requestCount >= config.IPBlacklist.AutoBlacklistThreshold

\* IPManager.ShouldAutoBlacklist; autoBlacklist and threshold are the
\* configuration's IPBlacklist.Enabled and AutoBlacklistThreshold.
ShouldAutoBlacklist(ip, requestCount) ==
    IF ~config.IPBlacklist.Enabled THEN FALSE
    ELSE IF IsWhitelisted(ip) THEN FALSE
    ELSE requestCount > config.IPBlacklist.AutoBlacklistThreshold

\* A mutant of ReputationDenies: the blacklist is not consulted.
ReputationDeniesNothing(ip) == FALSE

\* Step 1 of the middleware: the request is refused when blacklisting is
\* enabled and the key is blacklisted.
ReputationDenies(ip) ==
    config.IPBlacklist.Enabled /\ IsBlacklisted(ip)

\* ps.rateLimiter.Allow, the answer: the Redis limiter when a Redis client is
\* configured, else the token bucket.
RateLimiterAllows(ip) ==
    IF redisEnabled THEN RedisAllows(ip) ELSE TokenBucketAllows(ip)

\* A mutant of Stage: the rate limiter is consulted before the blacklist.
StageLimiterFirst(req) ==
    IF ~RateLimiterAllows(getClientIPMemo[req]) THEN "ratelimit"
    ELSE IF ReputationDenies(getClientIPMemo[req]) THEN "reputation"
    ELSE IF config.RequestFilter.Enabled /\ ~FilterRequest(req).Allowed THEN "filter"
    ELSE IF AnalyzeRequest(getClientIPMemo[req], req.UserAgent, req.Path, 0).IsBotnet
    THEN "botnet"
    ELSE "handler"

\* The stage at which the middleware answers the request: the first of the
\* four stages that refuses it, or the handler.
Stage(req) ==
    IF ReputationDenies(getClientIPMemo[req]) THEN "reputation"
    ELSE IF ~RateLimiterAllows(getClientIPMemo[req]) THEN "ratelimit"
    ELSE IF config.RequestFilter.Enabled /\ ~FilterRequest(req).Allowed THEN "filter"
    ELSE IF AnalyzeRequest(getClientIPMemo[req], req.UserAgent, req.Path, 0).IsBotnet
    THEN "botnet"
    ELSE "handler"

\* The response of each stage: the status and the code of the body; the
\* handler answers with its own status.
Response(stage, status) ==
    CASE stage = "reputation" -> [status |-> 403, code |-> "BLOCKED_IP"]
      [] stage = "ratelimit" -> [status |-> 429, code |-> "RATE_LIMITED"]
      [] stage = "filter" -> [status |-> 400, code |-> "FILTERED"]
      [] stage = "botnet" -> [status |-> 403, code |-> "BOTNET_DETECTED"]
      [] OTHER -> [status |-> status, code |-> ""]

\* A mutant of MiddlewareBlacklists: a botnet verdict never blacklists.
MiddlewareBlacklistsRateOnly(req, stage) ==
    stage = "ratelimit" /\ ShouldAutoBlacklist(getClientIPMemo[req], 100)

\* Whether the middleware calls BlacklistIP for the key: after a refusal by
\* the rate limiter when ShouldAutoBlacklist(key, 100) says so, and after a
\* botnet verdict with confidence above 0.8.
MiddlewareBlacklists(req, stage) ==
    \/ stage = "ratelimit" /\ ShouldAutoBlacklist(getClientIPMemo[req], 100)
    \/ /\ stage = "botnet"
       /\ AnalyzeRequest(getClientIPMemo[req], req.UserAgent, req.Path, 0).Confidence
              > 160

\* The route of setupRoutes that serves the request: the management calls
\* that write to the IP manager's blacklist and whitelist, or any other
\* handler (GET /health among them).
Route(req) ==
    IF req.Method = "POST" /\ req.Path = "/api/v1/ip/blacklist" THEN "blacklist"
    ELSE IF req.Method = "POST" /\ req.Path = "/api/v1/ip/whitelist" THEN "whitelist"
    ELSE IF req.Method = "DELETE" /\ Len(req.Path) > 21
            /\ SubSeq(req.Path, 1, 21) = "/api/v1/ip/blacklist/" THEN "unblacklist"
    ELSE "other"

\* The key a management route hands to the IP manager: the field "ip" of
\* the body, or the path parameter :ip.
RouteIP(req) ==
    IF Route(req) = "unblacklist" THEN From(req.Path, 22) ELSE req.Body.IP

\* The duration the blacklist route passes on, in ticks: the body's
\* "duration" is decoded into a time.Duration, a number of nanoseconds, and
\* one hour takes its place when it is 0.
RouteDuration(req) ==
    IF req.Body.Duration = 0 THEN 3600 * TicksPerSec
    ELSE req.Body.Duration \div NanosPerTick

\* The Redis keys the blacklist route leaves: the duration it passes is
\* never 0, so the key always gets a TTL.
RouteBlacklistRedis(req) ==
    IF req.Body.IP \notin whitelistedIPs /\ redisEnabled /\ redisUp
    THEN [redisBlacklist EXCEPT ![req.Body.IP] = now + RouteDuration(req)]
    ELSE redisBlacklist

\* The status the handler writes: 500 when the IP manager returns an error,
\* else 200.
HandlerStatus(req) ==
    CASE Route(req) = "blacklist" ->
            IF BlacklistIPError(req.Body.IP) = "" THEN 200 ELSE 500
      [] Route(req) \in {"whitelist", "unblacklist"} ->
            IF redisEnabled /\ ~redisUp THEN 500 ELSE 200
      [] OTHER -> 200

\* TrafficMonitor.RecordRequest: the monitor's maps and channel after it.
RecordRequest(req, responseTime, statusCode) ==
    LET clientIP == MonitorClientIP(req)
        times == RecordedTimes(clientIP, responseTime)
    IN  [requestCounts |-> Increment(requestCounts, clientIP),
         responseTimes |->
            IF clientIP \in DOMAIN responseTimes
            THEN [responseTimes EXCEPT ![clientIP] = times]
            ELSE responseTimes @@ (clientIP :> times),
         errorCounts |->
            IF statusCode >= 400 THEN Increment(errorCounts, clientIP)
            ELSE errorCounts,
         alertChan |->
            SendAlerts(alertChan,
                       checkAlerts(clientIP, Count(requestCounts, clientIP) + 1,
                                   times))]

\* ProtectionService.ProtectionMiddleware, one request from its arrival to
\* its response, the handler of its route included; ms is the time the
\* request takes.
ProtectionMiddleware(req, ms) ==
    \* every intermediate value is handed on as an argument, so that it is
    \* computed once per request
    LET Respond(clientIP, stage, blacklists, looked, route, status, recorded) ==
            /\ requestsSent' = requestsSent + 1
            /\ blacklistedIPs' =
                  IF blacklists THEN BlacklistIPLocal(looked, clientIP, BlacklistDuration)
                  ELSE IF route = "blacklist"
                  THEN BlacklistIPLocal(looked, req.Body.IP, RouteDuration(req))
                  ELSE IF route = "unblacklist"
                  THEN RemoveFromBlacklistLocal(looked, RouteIP(req))
                  ELSE looked
            /\ redisBlacklist' =
                  IF blacklists THEN BlacklistIPRedis(clientIP, BlacklistDuration)
                  ELSE IF route = "blacklist"
                  THEN RouteBlacklistRedis(req)
                  ELSE IF route = "unblacklist" /\ redisEnabled /\ redisUp
                  THEN [redisBlacklist EXCEPT ![RouteIP(req)] = NoEntry]
                  ELSE redisBlacklist
            /\ lease' =
                  IF blacklists THEN BlacklistIPLease(clientIP, BlacklistDuration)
                  ELSE IF route = "blacklist"
                  THEN BlacklistIPLease(req.Body.IP, RouteDuration(req))
                  ELSE IF route = "unblacklist"
                  THEN [lease EXCEPT ![RouteIP(req)] = <<>>]
                  ELSE lease
            /\ whitelistedIPs' =
                  IF route = "whitelist" THEN whitelistedIPs \cup {req.Body.IP}
                  ELSE whitelistedIPs
            /\ redisWhitelist' =
                  IF route = "whitelist" /\ redisEnabled /\ redisUp
                  THEN redisWhitelist \cup {req.Body.IP}
                  ELSE redisWhitelist
            \* Step 2: the rate limiter
            /\ IF stage = "reputation"
               THEN UNCHANGED <<tbVars, rlVars>>
               ELSE IF redisEnabled
               THEN RedisLimiterStep(clientIP) /\ UNCHANGED tbVars
               ELSE TokenBucketStep(clientIP) /\ UNCHANGED rlVars
            \* Step 3: the request filter
            /\ requestHistory' =
                  IF /\ stage \in {"filter", "botnet", "handler"}
                     /\ config.RequestFilter.Enabled
                     /\ FilterRequest(req).Recorded
                  THEN updateRequestHistory(req.RemoteAddr)
                  ELSE requestHistory
            \* Step 4: the botnet detector
            /\ IF stage \in {"botnet", "handler"}
               THEN /\ requestPatterns' = [requestPatterns EXCEPT ![clientIP] =
                           updateIPBehavior(getOrCreateIPBehavior(clientIP),
                                            req.UserAgent, req.Path, 0)]
                    /\ networkRanges' = Increment(networkRanges, getNetworkFromIPMemo[clientIP])
                    /\ geographicSpread' =
                           Increment(geographicSpread, getCountryFromIPMemo[clientIP])
                    /\ networkSpread' = Increment(networkSpread, getNetworkFromIPMemo[clientIP])
                    /\ burstPatterns' = Increment(burstPatterns, burstKey)
               ELSE UNCHANGED bdVars
            \* c.Next(), then TrafficMonitor.RecordRequest
            /\ IF stage = "handler"
               THEN /\ requestCounts' = recorded.requestCounts
                    /\ responseTimes' = recorded.responseTimes
                    /\ errorCounts' = recorded.errorCounts
                    /\ alertChan' = recorded.alertChan
               ELSE UNCHANGED tmVars
            /\ resp' = [status |-> status,
                        code |-> Response(stage, status).code,
                        handler |-> stage = "handler"]
            \* the DELETE route also notes the key and the local entry it met
            /\ ret' = IF route = "unblacklist"
                      THEN [op |-> "Request", ip |-> clientIP, ok |-> TRUE,
                            err |-> Response(stage, status).code,
                            removed |-> RouteIP(req), entry |-> looked[RouteIP(req)]]
                      ELSE Ret("Request", clientIP, stage = "handler",
                               Response(stage, status).code)
            /\ UNCHANGED <<now, config, redisEnabled, redisUp, swVars, hcVars>>
        Handle(clientIP, stage, looked) ==
            LET Serve(blacklists, route, status) ==
                    Respond(clientIP, stage, blacklists, looked, route, status,
                            RecordRequest(req, ms, status))
            IN  Serve(MiddlewareBlacklists(req, stage),
                      IF stage = "handler" THEN Route(req) ELSE "none",
                      Response(stage, HandlerStatus(req)).status)
    IN  Handle(getClientIPMemo[req], Stage(req),
               \* Step 1: IsBlacklisted drops an expired local entry it meets
               IF config.IPBlacklist.Enabled
               THEN BlacklistAfterLookup(getClientIPMemo[req])
               ELSE blacklistedIPs)

\* ProtectionService.handleAlert, run by processAlerts for the alert at the
\* head of the channel.
handleAlert ==
    /\ alertChan # <<>>
    /\ alertChan' = Tail(alertChan)
    /\ IF Head(alertChan).Type = "high_request_rate" /\ Head(alertChan).IP # ""
       THEN /\ blacklistedIPs' =
                   BlacklistIPLocal(blacklistedIPs, Head(alertChan).IP, BlacklistDuration)
            /\ redisBlacklist' = BlacklistIPRedis(Head(alertChan).IP, BlacklistDuration)
            /\ lease' = BlacklistIPLease(Head(alertChan).IP, BlacklistDuration)
            /\ ret' = Ret("handleAlert", Head(alertChan).IP,
                          BlacklistIPError(Head(alertChan).IP) = "",
                          BlacklistIPError(Head(alertChan).IP))
       ELSE /\ ret' = Ret("handleAlert", Head(alertChan).IP, TRUE, "")
            /\ UNCHANGED <<blacklistedIPs, redisBlacklist, lease>>
    /\ UNCHANGED <<now, redisEnabled, redisUp, whitelistedIPs, redisWhitelist,
                   tbVars, rlVars, swVars, hcVars, config, resp, requestsSent, rfVars,
                   bdVars, requestCounts, responseTimes, errorCounts>>

\* ProtectionService.cleanupRoutine, one firing of its ticker: the cleanup
\* of the IP manager, then that of the request filter.
cleanupRoutine ==
    /\ blacklistedIPs' = ExpiredEntriesRemoved
    /\ requestHistory' = RequestFilterCleanup
    /\ UNCHANGED <<now, ret, redisEnabled, redisUp, whitelistedIPs, redisBlacklist,
                   redisWhitelist, lease, tbVars, rlVars, swVars, hcVars, config, resp,
                   requestsSent, bdVars, tmVars>>

\* ----------------------------------------------------------- health checker

\* The goroutines that call into the health checker: HTTP handlers and the
\* ticker of StartHealthChecks.
Goroutines == 1..2

\* CircuitState.String()
StateClosed == "closed"
StateOpen == "open"
StateHalfOpen == "half-open"

\* The thresholds RegisterHealthCheck gives every breaker.
failureThreshold == 3
successThreshold == 2
halfOpenMaxCalls == 3

\* HealthChecker.timeout, the breaker's timeout: one second.
HealthTimeout == TicksPerSec

\* The breaker RegisterHealthCheck creates.
NewCircuitBreaker ==
    [state |-> StateClosed, failureCount |-> 0, successCount |-> 0,
     lastFailure |-> ZeroTime, halfOpenCalls |-> 0]

\* time.Since(cb.lastFailure) > cb.timeout
TimeoutPassed(cb) ==
    cb.lastFailure = ZeroTime \/ now - cb.lastFailure > HealthTimeout

\* A mutant of CanExecute: an open breaker lets every call through.
CanExecuteAlways(cb) ==
    IF cb.state = StateHalfOpen THEN cb.halfOpenCalls < halfOpenMaxCalls ELSE TRUE

\* CircuitBreaker.CanExecute, the value read under the read lock.
CanExecute(cb) ==
    CASE cb.state = StateClosed -> TRUE
      [] cb.state = StateOpen -> TimeoutPassed(cb)
      [] cb.state = StateHalfOpen -> cb.halfOpenCalls < halfOpenMaxCalls
      [] OTHER -> FALSE

\* CircuitBreaker.RecordFailure, the fields after it.
RecordFailure(cb) ==
    LET c == [cb EXCEPT !.failureCount = @ + 1, !.successCount = 0,
                        !.lastFailure = now, !.halfOpenCalls = 0]
    IN  IF cb.state = StateClosed
        THEN IF c.failureCount >= failureThreshold
             THEN [c EXCEPT !.state = StateOpen] ELSE c
        ELSE IF cb.state = StateHalfOpen THEN [c EXCEPT !.state = StateOpen]
        ELSE c

\* A mutant of RecordSuccess: a half-open breaker closes on any success.
RecordSuccessNoThreshold(cb) ==
    LET c == [cb EXCEPT !.successCount = @ + 1, !.failureCount = 0,
                        !.halfOpenCalls = @ + 1]
    IN  IF cb.state = StateHalfOpen
        THEN [c EXCEPT !.state = StateClosed, !.halfOpenCalls = 0]
        ELSE c

\* CircuitBreaker.RecordSuccess, the fields after it.
RecordSuccess(cb) ==
    LET c == [cb EXCEPT !.successCount = @ + 1, !.failureCount = 0,
                        !.halfOpenCalls = @ + 1]
    IN  IF cb.state = StateHalfOpen /\ c.successCount >= successThreshold
        THEN [c EXCEPT !.state = StateClosed, !.halfOpenCalls = 0]
        ELSE c

\* The body of the loop of updateCircuitBreakers, the fields after it.
HalfOpenAfterTimeout(cb) ==
    IF cb.state = StateOpen /\ TimeoutPassed(cb)
    THEN [cb EXCEPT !.state = StateHalfOpen, !.halfOpenCalls = 0]
    ELSE cb

\* What the recorded outcomes amount to after a failure, after a success
\* recorded in state s, and after the breaker became half-open.
HistAfterFailure(h) == [h EXCEPT !.failures = @ + 1]
HistAfterSuccess(h, s) ==
    [h EXCEPT !.failures = 0,
              !.halfOpenSuccesses = IF s = StateHalfOpen THEN @ + 1 ELSE @]
HistAfterUpdate(h, cb) ==
    IF cb.state = StateOpen /\ TimeoutPassed(cb)
    THEN [h EXCEPT !.halfOpenSuccesses = 0] ELSE h

\* A goroutine outside the health checker.
IdleCall == [op |-> "idle", pc |-> ""]
Call(op, pc) == [op |-> op, pc |-> pc]

\* sync.RWMutex.RLock returns at once unless a goroutine holds the write
\* lock or has announced itself in Lock; write sections below run in one
\* step, so only the announcement is ever seen.
RLockReturns == cbMu.pending = 0

\* sync.RWMutex.Lock, its first half: the goroutine takes the writers' mutex
\* and announces itself; readers that come later wait.
LockAnnounce(g) ==
    /\ cbMu.pending = 0
    /\ cbMu' = [cbMu EXCEPT !.pending = g]

\* sync.RWMutex.Lock, its second half: the announced writer goes on when
\* the readers that hold the lock have left; Unlock ends the section.
LockReturns(g) == cbMu.pending = g /\ cbMu.readers = 0

\* HealthChecker.runHealthCheck up to check.Check: CanExecute under the read
\* lock, and the result "circuit_open" when it is false.
runHealthCheck(g) ==
    /\ calls[g] = IdleCall
    /\ breaker.failureCount < MaxRecorded
    /\ breaker.successCount < MaxRecorded
    /\ RLockReturns
    /\ calls' = [calls EXCEPT ![g] =
           IF CanExecute(breaker) THEN Call("runHealthCheck", "Check") ELSE IdleCall]
    /\ ret' = Ret("runHealthCheck", breaker.state, CanExecute(breaker),
                  IF CanExecute(breaker) THEN "" ELSE "circuit_open")
    /\ UNCHANGED <<now, breaker, cbHist, cbMu, nonHcVars>>

\* check.Check returns, with an error or without, and the goroutine enters
\* RecordFailure or RecordSuccess, which asks for the write lock.
Check(g, failed) ==
    /\ calls[g] = Call("runHealthCheck", "Check")
    /\ LockAnnounce(g)
    /\ calls' = [calls EXCEPT ![g] =
           Call("runHealthCheck", IF failed THEN "RecordFailure" ELSE "RecordSuccess")]
    /\ UNCHANGED <<now, ret, breaker, cbHist, nonHcVars>>

\* The write section of RecordFailure or RecordSuccess, and the return of
\* runHealthCheck with "unhealthy" or "healthy".
Record(g) ==
    /\ calls[g].op = "runHealthCheck"
    /\ calls[g].pc \in {"RecordFailure", "RecordSuccess"}
    /\ LockReturns(g)
    /\ breaker' = IF calls[g].pc = "RecordFailure"
                  THEN RecordFailure(breaker) ELSE RecordSuccess(breaker)
    /\ cbHist' = IF calls[g].pc = "RecordFailure"
                 THEN HistAfterFailure(cbHist)
                 ELSE HistAfterSuccess(cbHist, breaker.state)
    /\ cbMu' = [cbMu EXCEPT !.pending = 0]
    /\ calls' = [calls EXCEPT ![g] = IdleCall]
    /\ ret' = Ret(calls[g].pc, breaker.state, TRUE,
                  IF calls[g].pc = "RecordFailure" THEN "unhealthy" ELSE "healthy")
    /\ UNCHANGED <<now, nonHcVars>>

\* HealthChecker.updateCircuitBreakers, run at a tick of StartHealthChecks:
\* the goroutine asks for the breaker's write lock.
updateCircuitBreakersLock(g) ==
    /\ calls[g] = IdleCall
    /\ LockAnnounce(g)
    /\ calls' = [calls EXCEPT ![g] = Call("updateCircuitBreakers", "Lock")]
    /\ UNCHANGED <<now, ret, breaker, cbHist, nonHcVars>>

\* HealthChecker.updateCircuitBreakers, the write section.
updateCircuitBreakers(g) ==
    /\ calls[g] = Call("updateCircuitBreakers", "Lock")
    /\ LockReturns(g)
    /\ breaker' = HalfOpenAfterTimeout(breaker)
    /\ cbHist' = HistAfterUpdate(cbHist, breaker)
    /\ cbMu' = [cbMu EXCEPT !.pending = 0]
    /\ calls' = [calls EXCEPT ![g] = IdleCall]
    /\ ret' = Ret("updateCircuitBreakers", breaker.state, TRUE, "")
    /\ UNCHANGED <<now, nonHcVars>>

\* HealthChecker.GetCircuitBreakerStatus up to cb.GetState(): the goroutine
\* takes the breaker's read lock.
GetCircuitBreakerStatusRLock(g) ==
    /\ calls[g] = IdleCall
    /\ RLockReturns
    /\ cbMu' = [cbMu EXCEPT !.readers = @ + 1]
    /\ calls' = [calls EXCEPT ![g] = Call("GetCircuitBreakerStatus", "GetState")]
    /\ UNCHANGED <<now, ret, breaker, cbHist, nonHcVars>>

\* cb.GetState(), which takes the read lock again, then the rest of
\* GetCircuitBreakerStatus: both read locks are released and the map is
\* returned.
GetCircuitBreakerStatus(g) ==
    /\ calls[g] = Call("GetCircuitBreakerStatus", "GetState")
    /\ RLockReturns
    /\ cbMu' = [cbMu EXCEPT !.readers = @ - 1]
    /\ calls' = [calls EXCEPT ![g] = IdleCall]
    /\ ret' = Ret("GetCircuitBreakerStatus", breaker.state, TRUE, "")
    /\ UNCHANGED <<now, breaker, cbHist, nonHcVars>>

\* The health checker after registerHealthChecks, no call under way.
IdleHC ==
    /\ breaker = NewCircuitBreaker
    /\ cbHist = [failures |-> 0, halfOpenSuccesses |-> 0]
    /\ cbMu = [readers |-> 0, pending |-> 0]
    /\ calls = [g \in Goroutines |-> IdleCall]

\* --------------------------------------------------------- the environment

\* Redis drops a key when its TTL runs out.
RedisExpire(t) ==
    [ip \in Addrs |->
        IF redisBlacklist[ip] >= 0 /\ redisBlacklist[ip] <= t
        THEN NoEntry ELSE redisBlacklist[ip]]

\* time.Now() advances by one tick.
Tick ==
    /\ now < MaxTime
    /\ now' = now + 1
    /\ redisBlacklist' = RedisExpire(now + 1)
    /\ ret' = Ret("Tick", "", TRUE, "")
    /\ tbCalls' = [k \in Keys |-> 0]
    /\ tbAdmits' = [k \in Keys |-> 0]
    /\ tbFresh' = [k \in Keys |-> FALSE]
    /\ rlZset' = [k \in Keys |->
           IF rlTTL[k] # NoEntry /\ rlTTL[k] <= now + 1 THEN <<>> ELSE rlZset[k]]
    /\ rlTTL' = [k \in Keys |->
           IF rlTTL[k] # NoEntry /\ rlTTL[k] <= now + 1 THEN NoEntry ELSE rlTTL[k]]
    /\ rlAdmitTimes' = [k \in Keys |-> InWindow(rlAdmitTimes[k], now + 1)]
    /\ UNCHANGED <<redisEnabled, redisUp, blacklistedIPs, whitelistedIPs,
                   redisWhitelist, lease, tbLimit, tbBurst, tbLimiters,
                   rlLimit, rlWindow, swVars, hcVars, pipeVars>>

\* time.Now() advances by n ticks while no request arrives.
Sleep(n) ==
    /\ now' = now + n
    /\ redisBlacklist' = RedisExpire(now + n)
    /\ ret' = Ret("Sleep", "", TRUE, "")
    /\ tbCalls' = [k \in Keys |-> 0]
    /\ tbAdmits' = [k \in Keys |-> 0]
    /\ tbFresh' = [k \in Keys |-> FALSE]
    /\ rlZset' = [k \in Keys |->
           IF rlTTL[k] # NoEntry /\ rlTTL[k] <= now + n THEN <<>> ELSE rlZset[k]]
    /\ rlTTL' = [k \in Keys |->
           IF rlTTL[k] # NoEntry /\ rlTTL[k] <= now + n THEN NoEntry ELSE rlTTL[k]]
    /\ rlAdmitTimes' = [k \in Keys |-> InWindow(rlAdmitTimes[k], now + n)]
    /\ UNCHANGED <<redisEnabled, redisUp, blacklistedIPs, whitelistedIPs,
                   redisWhitelist, lease, tbLimit, tbBurst, tbLimiters,
                   rlLimit, rlWindow, swVars, hcVars, pipeVars>>

\* The Redis server becomes unreachable, or reachable again.
RedisFlip ==
    /\ redisEnabled
    /\ redisUp' = ~redisUp
    /\ ret' = Ret("RedisFlip", "", TRUE, "")
    /\ UNCHANGED <<now, nonIpVars, redisEnabled, blacklistedIPs, whitelistedIPs,
                   redisBlacklist, redisWhitelist, lease>>

\* ----------------------------------------------------------- initial states

\* NewTokenBucketLimiter(requestsPerMinute, burstSize)
InitTB ==
    /\ tbLimit \in RateSet
    /\ tbBurst \in 0..MaxBurst
    /\ tbLimiters = [k \in Keys |-> <<>>]
    /\ tbCalls = [k \in Keys |-> 0]
    /\ tbAdmits = [k \in Keys |-> 0]
    /\ tbFresh = [k \in Keys |-> FALSE]

\* The IP manager, unused: no Redis, empty maps.
IdleIP ==
    /\ redisEnabled = FALSE
    /\ redisUp = FALSE
    /\ blacklistedIPs = [ip \in Addrs |-> NoEntry]
    /\ whitelistedIPs = {}
    /\ redisBlacklist = [ip \in Addrs |-> NoEntry]
    /\ redisWhitelist = {}
    /\ lease = [ip \in Addrs |-> <<>>]

\* The token-bucket limiter, unused.
IdleTB ==
    /\ tbLimit = 60
    /\ tbBurst = 1
    /\ tbLimiters = [k \in Keys |-> <<>>]
    /\ tbCalls = [k \in Keys |-> 0]
    /\ tbAdmits = [k \in Keys |-> 0]
    /\ tbFresh = [k \in Keys |-> FALSE]

\* The Redis limiter, unused.
IdleRL ==
    /\ rlLimit = 1
    /\ rlWindow = 1
    /\ rlZset = [k \in Keys |-> <<>>]
    /\ rlTTL = [k \in Keys |-> NoEntry]
    /\ rlAdmitTimes = [k \in Keys |-> <<>>]

\* NewRedisLimiter(client, limit, window)
InitRL ==
    /\ rlLimit \in 0..MaxLimit
    /\ rlWindow \in 1..MaxWindow
    /\ rlZset = [k \in Keys |-> <<>>]
    /\ rlTTL = [k \in Keys |-> NoEntry]
    /\ rlAdmitTimes = [k \in Keys |-> <<>>]

\* The sliding-window limiter, unused.
IdleSW ==
    /\ swLimit = 1
    /\ swWindow = TicksPerSec
    /\ swRequests = [k \in Keys |-> <<>>]
    /\ swFirst = [k \in Keys |-> NoEntry]
    /\ swCalls = [k \in Keys |-> 0]
    /\ swAdmits = [k \in Keys |-> 0]

\* NewSlidingWindowLimiter(limit, window)
InitSW ==
    /\ swLimit \in 0..MaxLimit
    /\ swWindow \in {w * TicksPerSec : w \in 1..MaxWindow} \cup {1}
    /\ swRequests = [k \in Keys |-> <<>>]
    /\ swFirst = [k \in Keys |-> NoEntry]
    /\ swCalls = [k \in Keys |-> 0]
    /\ swAdmits = [k \in Keys |-> 0]

\* The configuration of the README (config.Protection), with the burst and
\* the blacklist duration at the scale of the model.
BaseConfig ==
    [RateLimit |-> [RequestsPerMinute |-> 60, BurstSize |-> MaxBurst,
                    WindowSize |-> 1],
     IPBlacklist |-> [Enabled |-> TRUE, AutoBlacklistThreshold |-> 100,
                      BlacklistDuration |-> MaxDur \div TicksPerSec],
     RequestFilter |-> [Enabled |-> TRUE, MaxRequestSize |-> 1048576,
                        SuspiciousHeaders |-> {"User-Agent"},
                        BlockedUserAgents |-> BlockedUserAgents],
     Monitoring |-> [AlertThreshold |-> 1]]

\* The configurations the service is started with: BaseConfig, and
\* BaseConfig with a smaller burst, with a higher rate, with a lower
\* automatic blacklisting threshold, with blacklisting disabled, with the
\* filter disabled.
Configs ==
    {[BaseConfig EXCEPT !.RateLimit.BurstSize = b] : b \in 1..MaxBurst}
    \cup {[BaseConfig EXCEPT !.RateLimit.RequestsPerMinute = 90],
          [BaseConfig EXCEPT !.IPBlacklist.AutoBlacklistThreshold = 50],
          [BaseConfig EXCEPT !.IPBlacklist.Enabled = FALSE],
          [BaseConfig EXCEPT !.RequestFilter.Enabled = FALSE]}

\* The time a request takes from its arrival to the handler's return, in ms.
HandlerTimes == {2}

\* NewRequestFilter, NewBotnetDetector, NewTrafficMonitor: empty maps, and
\* no request handled yet.
InitStages ==
    /\ resp = [status |-> 0, code |-> "", handler |-> FALSE]
    /\ requestsSent = 0
    /\ requestHistory = EmptyMap
    /\ requestPatterns = [k \in Keys |-> <<>>]
    /\ networkRanges = EmptyMap
    /\ geographicSpread = EmptyMap
    /\ networkSpread = EmptyMap
    /\ burstPatterns = EmptyMap
    /\ requestCounts = EmptyMap
    /\ responseTimes = EmptyMap
    /\ errorCounts = EmptyMap
    /\ alertChan = <<>>

\* The middleware and its stages, unused.
IdlePipe ==
    /\ config = BaseConfig
    /\ InitStages

\* ------------------------------------------------- IP manager specification

\* NewIPManager: empty maps; the Redis client is configured or nil.
InitIP ==
    /\ now = 0
    /\ redisEnabled \in BOOLEAN
    /\ redisUp = redisEnabled
    /\ blacklistedIPs = [ip \in Addrs |-> NoEntry]
    /\ whitelistedIPs = {}
    /\ redisBlacklist = [ip \in Addrs |-> NoEntry]
    /\ redisWhitelist = {}
    /\ ret = Ret("init", "", TRUE, "")
    /\ lease = [ip \in Addrs |-> <<>>]
    /\ IdleTB
    /\ IdleRL
    /\ IdleSW
    /\ IdleHC
    /\ IdlePipe

NextIP ==
    \/ \E ip \in Keys, d \in 0..MaxDur : BlacklistIP(ip, d)
    \/ \E ip \in Keys : WhitelistIP(ip)
    \/ \E ip \in Keys : RemoveFromBlacklist(ip)
    \/ \E ip \in Keys : RemoveFromWhitelist(ip)
    \/ \E ip \in Keys : IsBlacklistedCall(ip)
    \/ CleanupExpiredEntries
    \/ Tick
    \/ RedisFlip

SpecIP == InitIP /\ [][NextIP]_vars

\* --------------------------------------- auto-blacklist rule specification

\* The request counts ShouldAutoBlacklist is called with: the constant of the
\* middleware, and the values around the configured thresholds.
RequestCounts == {0, 50, 51, 100, 101}

\* A call of IPManager.ShouldAutoBlacklist; ret keeps the count it was given.
ShouldAutoBlacklistCall(ip, requestCount) ==
    /\ ret' = [op |-> "ShouldAutoBlacklist", ip |-> ip,
               ok |-> ShouldAutoBlacklist(ip, requestCount), err |-> "",
               requestCount |-> requestCount]
    /\ UNCHANGED <<now, ipVars, nonIpVars>>

\* NewIPManager with any of the configurations, nothing listed yet.
InitAuto ==
    /\ now = 0
    /\ ret = Ret("init", "", TRUE, "")
    /\ redisEnabled \in BOOLEAN
    /\ redisUp = redisEnabled
    /\ blacklistedIPs = [ip \in Addrs |-> NoEntry]
    /\ whitelistedIPs = {}
    /\ redisBlacklist = [ip \in Addrs |-> NoEntry]
    /\ redisWhitelist = {}
    /\ lease = [ip \in Addrs |-> <<>>]
    /\ IdleTB
    /\ IdleRL
    /\ IdleSW
    /\ IdleHC
    /\ config \in Configs
    /\ InitStages

NextAuto ==
    \/ \E ip \in Keys, n \in RequestCounts : ShouldAutoBlacklistCall(ip, n)
    \/ \E ip \in Keys : WhitelistIP(ip)
    \/ \E ip \in Keys : RemoveFromWhitelist(ip)
    \/ \E ip \in Keys : BlacklistIP(ip, MaxDur)
    \/ RedisFlip

SpecAuto == InitAuto /\ [][NextAuto]_vars

\* ------------------------------------------ token-bucket specification

InitTBOnly ==
    /\ now = 0
    /\ ret = Ret("init", "", TRUE, "")
    /\ IdleIP
    /\ InitTB
    /\ IdleRL
    /\ IdleSW
    /\ IdleHC
    /\ IdlePipe

NextTB ==
    \/ \E k \in Keys : TokenBucketAllow(k)
    \/ Tick

SpecTB == InitTBOnly /\ [][NextTB]_vars

\* ------------------------------------------- Redis limiter specification

InitRLOnly ==
    /\ now = 0
    /\ ret = Ret("init", "", TRUE, "")
    /\ redisEnabled = TRUE
    /\ redisUp = TRUE
    /\ blacklistedIPs = [ip \in Addrs |-> NoEntry]
    /\ whitelistedIPs = {}
    /\ redisBlacklist = [ip \in Addrs |-> NoEntry]
    /\ redisWhitelist = {}
    /\ lease = [ip \in Addrs |-> <<>>]
    /\ IdleTB
    /\ InitRL
    /\ IdleSW
    /\ IdleHC
    /\ IdlePipe

NextRL ==
    \/ \E k \in Keys : RedisLimiterAllow(k)
    \/ RedisFlip
    \/ Tick

SpecRL == InitRLOnly /\ [][NextRL]_vars

\* ---------------------------------- sliding-window limiter specification

InitSWOnly ==
    /\ now = 0
    /\ ret = Ret("init", "", TRUE, "")
    /\ IdleIP
    /\ IdleTB
    /\ IdleRL
    /\ InitSW
    /\ IdleHC
    /\ IdlePipe

NextSW ==
    \/ \E k \in Keys : SlidingWindowAllow(k)
    \/ SlidingWindowCleanup
    \/ Tick

SpecSW == InitSWOnly /\ [][NextSW]_vars

\* ------------------------------------------- protection service specification

\* NewProtectionService: Redis configured or not, the IP manager empty, the
\* rate limiter built from the configuration (initRateLimiter), the stages
\* empty.
InitPipe ==
    /\ now = 0
    /\ ret = Ret("init", "", TRUE, "")
    /\ config \in Configs
    /\ redisEnabled \in IF config = BaseConfig THEN BOOLEAN ELSE {FALSE}
    /\ redisUp = redisEnabled
    /\ blacklistedIPs = [ip \in Addrs |-> NoEntry]
    /\ whitelistedIPs = {}
    /\ redisBlacklist = [ip \in Addrs |-> NoEntry]
    /\ redisWhitelist = {}
    /\ lease = [ip \in Addrs |-> <<>>]
    /\ tbLimit = config.RateLimit.RequestsPerMinute
    /\ tbBurst = config.RateLimit.BurstSize
    /\ tbLimiters = [k \in Keys |-> <<>>]
    /\ tbCalls = [k \in Keys |-> 0]
    /\ tbAdmits = [k \in Keys |-> 0]
    /\ tbFresh = [k \in Keys |-> FALSE]
    /\ rlLimit = config.RateLimit.RequestsPerMinute
    /\ rlWindow = config.RateLimit.WindowSize
    /\ rlZset = [k \in Keys |-> <<>>]
    /\ rlTTL = [k \in Keys |-> NoEntry]
    /\ rlAdmitTimes = [k \in Keys |-> <<>>]
    /\ IdleSW
    /\ IdleHC
    /\ InitStages

NextPipe ==
    \/ \E req \in Requests, ms \in HandlerTimes :
          requestsSent < MaxRequests /\ ProtectionMiddleware(req, ms)
    \/ handleAlert
    \/ cleanupRoutine
    \/ RedisFlip
    \/ Tick

SpecPipe == InitPipe /\ [][NextPipe]_vars

\* ------------------------------------------------------ claims: IP manager

\* C1: whitelist dominance on reads.  In every reachable state, for every key
\* that IsWhitelisted reports as whitelisted, IsBlacklisted answers false, and
\* an IsBlacklisted call that was just made on such a key returned false.
C1_WhitelistDominance ==
    /\ \A k \in Keys : IsWhitelisted(k) => ~IsBlacklisted(k)
    /\ (ret.op = "IsBlacklisted" /\ IsWhitelisted(ret.ip)) => ~ret.ok

\* C1 witness: a key was blacklisted, then whitelisted (its local blacklist
\* entry is still live), and IsBlacklisted was called on it and said false.
C1_Witness ==
    \E k \in Keys :
        /\ k \in whitelistedIPs
        /\ LocalBlacklistLive(k)
        /\ ret = Ret("IsBlacklisted", k, FALSE, "")

\* C2: BlacklistIP on a key for which IsWhitelisted is true (local or remote
\* entry) fails with the whitelist-conflict error and changes neither the
\* local blacklist map nor the remote blacklist keys.
C2_BlacklistWhitelistedFails ==
    [][\A k \in Keys :
          (ret'.op = "BlacklistIP" /\ ret'.ip = k /\ IsWhitelisted(k))
          => /\ ret'.err = "whitelisted"
             /\ blacklistedIPs' = blacklistedIPs
             /\ redisBlacklist' = redisBlacklist]_vars

\* C3: lease expiry.  After a successful BlacklistIP(k, d) at t0 with no later
\* blacklist or remove call on k, and k not whitelisted, IsBlacklisted(k) is
\* true exactly while now < t0 + d; and whenever IsBlacklisted(k) is true, k
\* has an entry (local or remote) whose expiry lies after now.
C3_LeaseExpiry ==
    /\ \A k \in Keys :
          (lease[k] # <<>> /\ ~IsWhitelisted(k))
          => (IsBlacklisted(k) <=> now < lease[k][1] + lease[k][2])
    /\ \A k \in Keys :
          IsBlacklisted(k)
          => \/ LocalBlacklistLive(k)
             \/ redisBlacklist[k] >= 0 /\ now < redisBlacklist[k]

\* -------------------------------------------------------- claims: limiters

\* C7: token-bucket bound.  In every reachable state every bucket holds
\* between 0 and burst tokens, stored or available; at one instant at most
\* burst calls on a key are admitted, however long the key was idle before;
\* and no step moves a bucket's last-refill time backwards.
C7_TokenBucketBound ==
    /\ [](\A k \in Keys :
             /\ tbAdmits[k] <= tbBurst
             /\ tbLimiters[k] # <<>> =>
                   /\ 0 <= tbLimiters[k].tokens
                   /\ tbLimiters[k].tokens <= tbBurst * TokenScale
                   /\ Advance(tbLimiters[k]) <= tbBurst * TokenScale)
    /\ [][\A k \in Keys :
             tbLimiters[k] # <<>> =>
                 /\ tbLimiters'[k] # <<>>
                 /\ tbLimiters'[k].last >= tbLimiters[k].last]_vars

\* C7 witness: a key that used up its bucket earlier was idle, and now, at one
\* instant, got exactly burst calls admitted and the next one refused.
C7_Witness ==
    \E k \in Keys :
        /\ tbBurst = MaxBurst
        /\ ~tbFresh[k]
        /\ tbAdmits[k] = tbBurst
        /\ tbCalls[k] > tbAdmits[k]
        /\ ret = Ret("TokenBucketLimiter.Allow", k, FALSE, "")

\* C8: sliding-window bound of the Redis limiter.  For every key, the calls
\* that Allow answered true (Redis reachable) within any interval of length
\* window are at most limit.
C8_RedisWindowBound ==
    \A k \in Keys : Len(rlAdmitTimes[k]) <= rlLimit

\* C9: in-memory sliding window.  For a key that was fresh, while the window
\* of its first call lasts the admitted calls are the first limit ones, and
\* the stored list never holds more than limit timestamps.
C9_SlidingWindow ==
    \A k \in Keys :
        /\ (swFirst[k] # NoEntry /\ now < swFirst[k] + swWindow)
               => swAdmits[k] = Min(swCalls[k], swLimit)
        /\ Len(swRequests[k]) <= swLimit

\* C9 witness: within the window of its first call a key got limit calls
\* admitted, at different times, and a further call refused.
C9_Witness ==
    \E k \in Keys :
        /\ swLimit = MaxLimit
        /\ swFirst[k] # NoEntry /\ swFirst[k] < now /\ now < swFirst[k] + swWindow
        /\ swAdmits[k] = swLimit
        /\ swCalls[k] > swLimit
        /\ swRequests[k][1] # swRequests[k][Len(swRequests[k])]
        /\ ret = Ret("SlidingWindowLimiter.Allow", k, FALSE, "")

\* C10: rate-limit fail-open.  A RedisLimiter.Allow call whose Redis pipeline
\* failed returned true.
C10_RateLimitFailOpen ==
    (ret.op = "RedisLimiter.Allow" /\ ret.err = "redis") => ret.ok

\* C10 witness: Redis is unreachable, the key already has limit or more
\* requests in its window, and Allow on it returned true.
C10_Witness ==
    /\ ret.op = "RedisLimiter.Allow" /\ ret.err = "redis" /\ ret.ok
    /\ rlLimit >= 1
    /\ Len(RedisKept(ret.ip)) >= rlLimit

\* -------------------------------------------------------- claims: pipeline

\* The step is one request passing through ProtectionMiddleware.
RequestStep == requestsSent' = requestsSent + 1

\* C4: whitelist bypass in the pipeline.  Every request whose client key is
\* whitelisted when it arrives is forwarded to the handler, and is not denied
\* with RATE_LIMITED, FILTERED or BOTNET_DETECTED.
C4_WhitelistBypass ==
    [][(RequestStep /\ IsWhitelisted(ret'.ip))
       => /\ resp'.handler
          /\ resp'.code \notin {"RATE_LIMITED", "FILTERED", "BOTNET_DETECTED"}]_vars

\* C5: with IP blacklisting enabled, a request whose client key is
\* blacklisted when it arrives is answered 403 BLOCKED_IP, and the handler
\* is not invoked: nothing the handler or the recording after it writes
\* changes.
C5_BlacklistedDenied ==
    [][(RequestStep /\ config.IPBlacklist.Enabled /\ IsBlacklisted(ret'.ip))
       => /\ resp' = [status |-> 403, code |-> "BLOCKED_IP", handler |-> FALSE]
          /\ UNCHANGED <<whitelistedIPs, redisWhitelist, redisBlacklist, lease,
                         tmVars>>]_vars

\* C5 witness: blacklisting is enabled, the operator's call blacklisted a
\* key, and the request of that key that came next was answered 403
\* BLOCKED_IP without reaching the handler.
C5_Witness ==
    /\ config.IPBlacklist.Enabled
    /\ ret = Ret("Request", "10.0.1.2", FALSE, "BLOCKED_IP")
    /\ resp = [status |-> 403, code |-> "BLOCKED_IP", handler |-> FALSE]
    /\ lease["10.0.1.2"] # <<>>
    /\ IsBlacklisted("10.0.1.2")

\* C6: token-bucket burst.  For a key with no prior traffic and no time
\* elapsing between the calls, the calls the token bucket admits are the
\* first burst ones; and a request the token bucket refuses is answered 429
\* RATE_LIMITED without reaching the handler, while one it admits is not
\* answered RATE_LIMITED.
C6_TokenBucketBurst ==
    /\ [](\A k \in Keys : tbFresh[k] => tbAdmits[k] = Min(tbCalls[k], tbBurst))
    /\ [][\A k \in Keys :
             (RequestStep /\ tbCalls'[k] = tbCalls[k] + 1)
             => IF tbAdmits'[k] = tbAdmits[k]
                THEN resp' = [status |-> 429, code |-> "RATE_LIMITED",
                              handler |-> FALSE]
                ELSE resp'.code # "RATE_LIMITED"]_vars

\* C6 witness: a key with no prior traffic sent burst + 1 requests at one
\* instant; burst of them passed the token bucket and the last one was
\* answered 429 RATE_LIMITED.
C6_Witness ==
    \E k \in Keys :
        /\ ~redisEnabled
        /\ tbBurst = MaxBurst
        /\ tbFresh[k]
        /\ tbCalls[k] = tbBurst + 1
        /\ tbAdmits[k] = tbBurst
        /\ ret = Ret("Request", k, FALSE, "RATE_LIMITED")
        /\ resp = [status |-> 429, code |-> "RATE_LIMITED", handler |-> FALSE]

\* ------------------------------------------- claims: Redis outage, IP manager

\* C11: reputation-read fail-open.  While Redis is unreachable, IsBlacklisted
\* is false for every key that has no unexpired entry in the local blacklist
\* map, and an IsBlacklisted call made on such a key returned false.
C11_ReputationReadFailOpen ==
    /\ (redisEnabled /\ ~redisUp)
          => \A k \in Keys : ~LocalBlacklistLive(k) => ~IsBlacklisted(k)
    /\ (/\ ret.op = "IsBlacklisted"
        /\ redisEnabled /\ ~redisUp
        /\ ~LocalBlacklistLive(ret.ip)) => ~ret.ok

\* C11 witness: Redis holds a live blacklist key for a key that is neither
\* whitelisted nor in the local map, Redis is unreachable, and IsBlacklisted
\* was called on the key and said false.
C11_Witness ==
    \E k \in Keys :
        /\ redisEnabled /\ ~redisUp
        /\ RedisBlacklistExists(k)
        /\ ~LocalBlacklistLive(k)
        /\ k \notin whitelistedIPs
        /\ ret = Ret("IsBlacklisted", k, FALSE, "")

\* C12: best-effort mirroring.  A BlacklistIP call on a non-whitelisted key
\* whose Redis write fails returns that error, writes the local entry with
\* expiry now + d and leaves Redis alone; a BlacklistIP call that writes the
\* Redis key has written the local entry too; and a live local entry of a
\* non-whitelisted key alone makes IsBlacklisted true.
C12_BestEffortMirroring ==
    /\ [](\A k \in Keys :
             (LocalBlacklistLive(k) /\ ~IsWhitelisted(k)) => IsBlacklisted(k))
    /\ [][\A k \in Keys :
             (ret'.op = "BlacklistIP" /\ ret'.ip = k)
             => /\ (~IsWhitelisted(k) /\ redisEnabled /\ ~redisUp)
                   => /\ ret'.err = "redis" /\ ~ret'.ok
                      /\ \E d \in 0..MaxDur : blacklistedIPs'[k] = now + d
                      /\ redisBlacklist' = redisBlacklist
                /\ redisBlacklist'[k] # redisBlacklist[k]
                   => \E d \in 0..MaxDur : blacklistedIPs'[k] = now + d]_vars

\* C12 witness: Redis was unreachable when BlacklistIP was called on a key
\* that is not whitelisted; the call returned the Redis error, and the key
\* is blacklisted through its local entry.
C12_Witness ==
    \E k \in Keys :
        /\ ret = Ret("BlacklistIP", k, FALSE, "redis")
        /\ ~redisUp
        /\ LocalBlacklistLive(k)
        /\ redisBlacklist[k] = NoEntry
        /\ IsBlacklisted(k)

\* ----------------------------------------- claims: Redis outage, management API

\* C13: operator-initiated writes under store outage.  A request that reaches
\* the POST /api/v1/ip/blacklist or /api/v1/ip/whitelist handler while Redis
\* is unreachable, and whose local write happened (a new whitelist member or
\* a newly written blacklist expiry), is answered 200.
C13_OperatorWriteSucceeds ==
    [][(/\ RequestStep
        /\ resp'.handler
        /\ redisEnabled /\ ~redisUp
        /\ \/ whitelistedIPs' # whitelistedIPs
           \/ \E k \in Addrs : /\ blacklistedIPs'[k] # blacklistedIPs[k]
                                /\ blacklistedIPs'[k] # NoEntry)
       => resp'.status = 200]_vars

\* ------------------------------------- automatic promotion specification

\* test_auto_blacklisting: the number of requests the client sends.
PromoRequests == 120

\* The request the client repeats: a browser's GET that the filter passes.
PromoRequest ==
    Req("10.0.0.1:4000", "", "", "Mozilla/5.0", "GET", "/app.js", 0, <<>>)

\* Auto-blacklisting enabled with threshold 100, and an alert threshold the
\* admitted requests of the run stay below.
PromoConfig == [BaseConfig EXCEPT !.Monitoring.AlertThreshold = 1000]

\* NewProtectionService with PromoConfig and no Redis.
InitPromo ==
    /\ now = 0
    /\ ret = Ret("init", "", TRUE, "")
    /\ IdleIP
    /\ config = PromoConfig
    /\ tbLimit = config.RateLimit.RequestsPerMinute
    /\ tbBurst = config.RateLimit.BurstSize
    /\ tbLimiters = [k \in Keys |-> <<>>]
    /\ tbCalls = [k \in Keys |-> 0]
    /\ tbAdmits = [k \in Keys |-> 0]
    /\ tbFresh = [k \in Keys |-> FALSE]
    /\ IdleRL
    /\ IdleSW
    /\ IdleHC
    /\ InitStages

\* The client sends its requests one after the other while time passes.
NextPromo ==
    \/ requestsSent < PromoRequests /\ ProtectionMiddleware(PromoRequest, 0)
    \/ Tick

SpecPromo == InitPromo /\ [][NextPromo]_vars

\* --------------------------------------- reconfiguration specification

\* The pairs (requests per minute, burst size) the service is configured
\* with, at start-up and by PUT /api/v1/config/rate-limits; the body of the
\* PUT is bound to two ints without constraints, so it may carry zeros.
RatePairs == {<<60, 1>>, <<90, 2>>, <<0, 0>>}

\* TokenBucketLimiter.GetLimit: int(limit * 60) of limit = rpm / 60.0 in
\* float64, which falls one short of rpm for these values below 250.
GetLimit(rpm) == IF rpm \in {123, 245, 246, 247} THEN rpm - 1 ELSE rpm

\* ProtectionService.UpdateRateLimitConfig: under ps.mu the two fields of the
\* configuration are written and initRateLimiter puts a new limiter in
\* ps.rateLimiter; the readers of ps.rateLimiter do not take ps.mu.
UpdateRateLimitConfig(requestsPerMinute, burstSize) ==
    /\ config' = [config EXCEPT !.RateLimit.RequestsPerMinute = requestsPerMinute,
                                !.RateLimit.BurstSize = burstSize]
    /\ IF redisEnabled
       THEN /\ rlLimit' = requestsPerMinute
            /\ rlWindow' = config.RateLimit.WindowSize
            /\ UNCHANGED <<rlZset, rlTTL, rlAdmitTimes, tbVars>>
       ELSE /\ tbLimit' = requestsPerMinute
            /\ tbBurst' = burstSize
            /\ tbLimiters' = [k \in Keys |-> <<>>]
            /\ tbCalls' = [k \in Keys |-> 0]
            /\ tbAdmits' = [k \in Keys |-> 0]
            /\ tbFresh' = [k \in Keys |-> FALSE]
            /\ UNCHANGED rlVars
    /\ UNCHANGED <<now, ret, ipVars, swVars, hcVars, resp, requestsSent, rfVars, bdVars,
                   tmVars>>

\* ProtectionService.GetRateLimitConfig, its first read of ps.rateLimiter:
\* GetLimit() of the limiter found there.  resp is the response of GET
\* /api/v1/config/rate-limits in the making.
GetRateLimitConfigLimit ==
    /\ resp.status # 0 \/ resp.code # "rate-limits"
    /\ resp' = [status |-> 0, code |-> "rate-limits", handler |-> TRUE,
                requests_per_minute |->
                    IF redisEnabled THEN rlLimit ELSE GetLimit(tbLimit)]
    /\ UNCHANGED <<now, ret, ipVars, tbVars, rlVars, swVars, hcVars, config, requestsSent,
                   rfVars, bdVars, tmVars>>

\* ProtectionService.GetRateLimitConfig, its second read of ps.rateLimiter:
\* GetBurst() of the limiter found there, and the response is sent.
GetRateLimitConfigBurst ==
    /\ resp.status = 0 /\ resp.code = "rate-limits"
    /\ resp' = [status |-> 200, code |-> "rate-limits", handler |-> TRUE,
                requests_per_minute |-> resp.requests_per_minute,
                burst_size |-> IF redisEnabled THEN rlWindow ELSE tbBurst]
    /\ UNCHANGED <<now, ret, ipVars, tbVars, rlVars, swVars, hcVars, config, requestsSent,
                   rfVars, bdVars, tmVars>>

\* NewProtectionService without Redis, configured with one of the pairs.
InitCfg ==
    /\ now = 0
    /\ ret = Ret("init", "", TRUE, "")
    /\ IdleIP
    /\ \E p \in {q \in RatePairs : q[1] > 0 /\ q[2] > 0} :
          /\ config = [BaseConfig EXCEPT !.RateLimit.RequestsPerMinute = p[1],
                                         !.RateLimit.BurstSize = p[2]]
          /\ tbLimit = p[1]
          /\ tbBurst = p[2]
    /\ tbLimiters = [k \in Keys |-> <<>>]
    /\ tbCalls = [k \in Keys |-> 0]
    /\ tbAdmits = [k \in Keys |-> 0]
    /\ tbFresh = [k \in Keys |-> FALSE]
    /\ IdleRL
    /\ IdleSW
    /\ IdleHC
    /\ InitStages

\* The limiter calls of the pipeline, the two reads of GetRateLimitConfig and
\* the updates, in any order.
NextCfg ==
    \/ \E p \in RatePairs : UpdateRateLimitConfig(p[1], p[2])
    \/ GetRateLimitConfigLimit
    \/ GetRateLimitConfigBurst
    \/ \E k \in Keys : TokenBucketAllow(k)
    \/ Tick

SpecCfg == InitCfg /\ [][NextCfg]_vars

\* ------------------------------------------ request filter specification

\* A call of RequestFilter.FilterRequest; ret keeps the request and the
\* result.
FilterRequestCall(req) ==
    /\ requestHistory' = IF FilterRequest(req).Recorded
                         THEN updateRequestHistory(req.RemoteAddr)
                         ELSE requestHistory
    /\ ret' = [op |-> "FilterRequest", ip |-> req.RemoteAddr,
               ok |-> FilterRequest(req).Allowed, err |-> "",
               req |-> req, result |-> FilterRequest(req)]
    /\ UNCHANGED <<now, ipVars, tbVars, rlVars, swVars, hcVars, config, resp, requestsSent,
                   bdVars, tmVars>>

\* Every component as its constructor leaves it.
InitIdle ==
    /\ now = 0
    /\ ret = Ret("init", "", TRUE, "")
    /\ IdleIP
    /\ IdleTB
    /\ IdleRL
    /\ IdleSW
    /\ IdleHC
    /\ IdlePipe

\* The filter is called with the requests in any order, all within one tick
\* of the clock, until an address has 120 requests in its history.
NextRF ==
    \E req \in Requests :
        /\ Len(RecentRequests(req.RemoteAddr)) < PromoRequests
        /\ FilterRequestCall(req)

SpecRF == InitIdle /\ [][NextRF]_vars

\* ------------------------------------------ botnet decision specification

\* The twelve indicators the five analyses can append, in their order: each
\* analysis is given a behaviour, a count or a map that meets its conditions.
AllIndicators ==
    analyzeBehavior([RequestCount |-> 51, LastSeen |-> now, UserAgents |-> {"a"},
                     ResponseTimes |-> [i \in 1..21 |-> 0],
                     RequestIntervals |-> [i \in 1..21 |-> 0],
                     HasJavascript |-> FALSE, HasCSS |-> FALSE,
                     HasImages |-> FALSE])
    \o analyzeNetwork(101)
    \o analyzeTiming([k \in 1..1001 |-> [LastSeen |-> now]])
    \o analyzeGlobalPatterns([k \in 1..51 |-> 1], [k \in 1..101 |-> 1])
    \o analyzeCoordination(101)

\* The indicators an analysis holds when the conditions chosen by S were met.
IndicatorsOf(S) ==
    LET F[i \in 0..Len(AllIndicators)] ==
            IF i = 0 THEN <<>>
            ELSE IF i \in S THEN Append(F[i - 1], AllIndicators[i])
            ELSE F[i - 1]
    IN  F[Len(AllIndicators)]

\* One AnalyzeRequest call from the five analyses on: calculateFinalDecision
\* is applied to the indicators found; ret keeps the analysis.
calculateFinalDecisionCall(S) ==
    /\ requestsSent = 0
    /\ requestsSent' = 1
    /\ ret' = [op |-> "calculateFinalDecision", ip |-> "", ok |-> TRUE, err |-> "",
               analysis |-> calculateFinalDecision(IndicatorsOf(S))]
    /\ UNCHANGED <<now, ipVars, tbVars, rlVars, swVars, hcVars, config, resp, rfVars,
                   bdVars, tmVars>>

NextBD == \E S \in SUBSET (1..12) : calculateFinalDecisionCall(S)

SpecBD == InitIdle /\ [][NextBD]_vars

\* ------------------------------------------- stage order specification

\* A burst large enough for the behavioural detector to see one key's
\* requests by the dozen.
StageConfig == [PromoConfig EXCEPT !.RateLimit.BurstSize = 60]

\* The requests of the client key 10.0.1.2: one the filter passes, with a
\* path that is no script, style sheet or image, and one it denies.
StageRequests == {r \in Requests : getClientIP(r) = "10.0.1.2"}

\* NewProtectionService with StageConfig and no Redis.
InitStage ==
    /\ now = 0
    /\ ret = Ret("init", "", TRUE, "")
    /\ IdleIP
    /\ config = StageConfig
    /\ tbLimit = config.RateLimit.RequestsPerMinute
    /\ tbBurst = config.RateLimit.BurstSize
    /\ tbLimiters = [k \in Keys |-> <<>>]
    /\ tbCalls = [k \in Keys |-> 0]
    /\ tbAdmits = [k \in Keys |-> 0]
    /\ tbFresh = [k \in Keys |-> FALSE]
    /\ IdleRL
    /\ IdleSW
    /\ IdleHC
    /\ InitStages

\* The client sends its requests in any order, all within one tick of the
\* clock.
NextStage ==
    \E req \in StageRequests :
        requestsSent < PromoRequests /\ ProtectionMiddleware(req, 0)

SpecStage == InitStage /\ [][NextStage]_vars

\* ------------------------------------------- monotonicity specification

\* One key sends the two image requests in any order, all within one tick
\* of the clock, against the burst of StageConfig.
NextMono ==
    \E req \in MonoRequests :
        requestsSent < PromoRequests /\ ProtectionMiddleware(req, 0)

SpecMono == InitStage /\ [][NextMono]_vars

\* ------------------------------------------------ claims: auto-blacklist rule

\* C14: a ShouldAutoBlacklist(k, n) call returns true exactly when
\* auto-blacklisting is enabled, k is not whitelisted and n exceeds the
\* configured threshold, and it changes neither the blacklist nor the
\* whitelist, local or in Redis.
C14_ShouldAutoBlacklist ==
    [][ret'.op = "ShouldAutoBlacklist"
       => /\ ret'.ok <=> /\ config.IPBlacklist.Enabled
                         /\ ~IsWhitelisted(ret'.ip)
                         /\ ret'.requestCount > config.IPBlacklist.AutoBlacklistThreshold
          /\ UNCHANGED <<blacklistedIPs, whitelistedIPs, redisBlacklist,
                         redisWhitelist, lease>>]_vars

\* C14 witness: with threshold 100, a call with count 101 on a key that is
\* not whitelisted said true while another key is whitelisted and a
\* blacklist entry exists.
C14_Witness ==
    /\ ret.op = "ShouldAutoBlacklist"
    /\ ret.ok
    /\ ret.requestCount = 101
    /\ config.IPBlacklist.AutoBlacklistThreshold = 100
    /\ whitelistedIPs # {}
    /\ \E k \in Keys : blacklistedIPs[k] # NoEntry

\* C15: automatic promotion.  With auto-blacklisting enabled and threshold
\* 100, a key that is not whitelisted, has sent its 120 requests and was rate
\* limited on the way has been blacklisted: a BlacklistIP lease was written
\* for it.
C15_AutomaticPromotion ==
    \A k \in Keys :
        (/\ requestsSent = PromoRequests
         /\ ret = Ret("Request", k, FALSE, "RATE_LIMITED")
         /\ tbAdmits[k] < tbCalls[k]
         /\ config.IPBlacklist.Enabled
         /\ config.IPBlacklist.AutoBlacklistThreshold = 100
         /\ ~IsWhitelisted(k))
        => lease[k] # <<>>

\* ------------------------------------------------------ claims: stage order

\* C16: stage order and short-circuit.  A request is answered BLOCKED_IP
\* exactly when the blacklist check is enabled and its key is blacklisted, and
\* then the limiter, the filter, the detector and the monitor keep their
\* state; otherwise it is answered RATE_LIMITED exactly when the limiter
\* refuses it, and then the filter, the detector and the monitor keep their
\* state; a FILTERED request leaves the detector and the monitor alone, a
\* BOTNET_DETECTED request leaves the monitor alone; and the handler runs
\* only for a request that no stage denied.
C16_StageOrder ==
    [][RequestStep
       => /\ resp'.code = "BLOCKED_IP"
                <=> (config.IPBlacklist.Enabled /\ IsBlacklisted(ret'.ip))
          /\ resp'.code = "BLOCKED_IP"
                => UNCHANGED <<tbVars, rlVars, rfVars, bdVars, tmVars>>
          /\ resp'.code = "RATE_LIMITED"
                <=> /\ ~(config.IPBlacklist.Enabled /\ IsBlacklisted(ret'.ip))
                    /\ ~RateLimiterAllows(ret'.ip)
          /\ resp'.code = "RATE_LIMITED" => UNCHANGED <<rfVars, bdVars, tmVars>>
          /\ resp'.code = "FILTERED" => UNCHANGED <<bdVars, tmVars>>
          /\ resp'.code = "BOTNET_DETECTED" => UNCHANGED tmVars
          /\ resp'.handler
                <=> resp'.code \notin {"BLOCKED_IP", "RATE_LIMITED", "FILTERED",
                                       "BOTNET_DETECTED"}
          /\ ~resp'.handler => UNCHANGED tmVars]_vars

\* C16 witness: a request of a blacklisted key was answered BLOCKED_IP while
\* the key's bucket still holds a token, the filter holds the history of its
\* address and the detector its behaviour.
C16_Witness ==
    /\ resp.code = "BLOCKED_IP"
    /\ ret.op = "Request"
    /\ TokenBucketAllows(ret.ip)
    /\ requestPatterns[ret.ip] # <<>>
    /\ requestHistory # EmptyMap

\* ---------------------------------------------------- claims: request filter

\* C17: filter on safe input.  A FilterRequest call on a request within the
\* size limit, with no blocked user agent, no malicious pattern in its URL or
\* its inspected headers, a method among GET, POST, PUT, DELETE and a
\* User-Agent returns allowed = true and risk 0, whatever the history.
C17_FilterSafeInput ==
    (/\ ret.op = "FilterRequest"
     /\ ret.req.ContentLength <= config.RequestFilter.MaxRequestSize
     /\ ~isBlockedUserAgent(ret.req.UserAgent)
     /\ ~hasMaliciousPatternMemo[ret.req.Path \o ret.req.RawQuery]
     /\ checkSuspiciousHeaders(ret.req) = {}
     /\ ret.req.Method \in {"GET", "POST", "PUT", "DELETE"}
     /\ ret.req.UserAgent # "")
    => /\ ret.result.Allowed
       /\ ret.result.RiskScore = 0

\* ------------------------------------------------------ claims: monotonicity

\* C18: pipeline monotonicity.  In every state, of two requests that are
\* alike except that the second is larger, or has a blocked or no User-Agent
\* where the first has a harmless one, or a suspicious method or a malicious
\* URL where the first has none, the second is denied when the first is.
C18_PipelineMonotonicity ==
    \A r1, r2 \in AllRequests :
        LET benign(ua) == ua # "" /\ ~isBlockedUserAgent(ua)
            malicious(r) == hasMaliciousPatternMemo[r.Path \o r.RawQuery]
            more ==
                /\ r1.RemoteAddr = r2.RemoteAddr
                /\ r1.XForwardedFor = r2.XForwardedFor
                /\ r1.XRealIP = r2.XRealIP
                /\ r1.Body = r2.Body
                /\ r2.ContentLength >= r1.ContentLength
                /\ \/ r2.UserAgent = r1.UserAgent
                   \/ benign(r1.UserAgent) /\ ~benign(r2.UserAgent)
                /\ \/ r2.Method = r1.Method
                   \/ /\ ~isSuspiciousMethodMemo[r1.Method]
                      /\ isSuspiciousMethodMemo[r2.Method]
                /\ \/ r2.Path = r1.Path /\ r2.RawQuery = r1.RawQuery
                   \/ ~malicious(r1) /\ malicious(r2)
        IN  (more /\ Stage(r1) # "handler") => Stage(r2) # "handler"

\* ---------------------------------------------------- claims: botnet decision

\* C19: botnet decision rule.  With the confidence in units of 1/200, every
\* analysis has confidence = min(200, risk + 10 * |indicators|), between 0 and
\* 200; is_botnet holds exactly when the confidence is at least 160 (0.8) or
\* the risk at least 300; and a risk of 300 or more comes with a confidence of
\* at least 160.
C19_BotnetDecision ==
    ret.op = "calculateFinalDecision"
    => LET a == ret.analysis
           risk == a.RiskScore
           n == Len(a.Indicators)
       IN  /\ a.Confidence = Min(200, risk + 10 * n)
           /\ a.Confidence \in 0..200
           /\ a.IsBotnet <=> (a.Confidence >= 160 \/ risk >= 300)
           /\ risk >= 300 => a.Confidence >= 160

\* C19 witness: an analysis whose sum risk + 10 * |indicators| is above 200
\* has confidence 200 and is a botnet, and its risk is below 300.
C19_Witness ==
    /\ ret.op = "calculateFinalDecision"
    /\ ret.analysis.RiskScore + 10 * Len(ret.analysis.Indicators) > 200
    /\ ret.analysis.RiskScore < 300
    /\ ret.analysis.Confidence = 200
    /\ ret.analysis.IsBotnet

\* --------------------------------------------------- claims: reconfiguration

\* C20: atomic reconfiguration.  The pair a GetRateLimitConfig call returns
\* is one of the pairs the service was configured with, the old one or the
\* new one, never the limit of one with the burst of another.
C20_AtomicReconfiguration ==
    (resp.code = "rate-limits" /\ resp.status = 200)
    => <<resp.requests_per_minute, resp.burst_size>> \in RatePairs

\* ------------------------------------------- management specification

\* IsValidIP: net.ParseIP(ip) != nil, for strings without a colon: four
\* decimal fields from 0 to 255, without leading zeros, joined by dots.
IsValidIP(ip) ==
    LET fields == Split(ip, ".")
    IN  /\ Len(fields) = 4
        /\ \A i \in 1..4 : fields[i] \in {ToString(n) : n \in 0..255}

\* The operator and the client send the management calls and the probe in
\* any order while the clock runs; Redis, when configured, stays up.
NextMgmt ==
    \/ \E req \in MgmtRequests :
          requestsSent < MaxRequests /\ ProtectionMiddleware(req, 0)
    \/ Tick

SpecMgmt == InitPipe /\ [][NextMgmt]_vars

\* A step of the middleware that serves req and reaches its handler.
Served(req) ==
    /\ ProtectionMiddleware(req, 0)
    /\ resp'.handler

\* C22: "add blacklist" and "add whitelist" with a key that is no IP address
\* fail with a 4xx status and leave the blacklist and the whitelist as they
\* were.
C22_InvalidKeyRejected ==
    [][\A req \in MgmtRequests :
          (/\ Route(req) \in {"blacklist", "whitelist"}
           /\ ~IsValidIP(req.Body.IP)
           /\ Served(req))
          => /\ resp'.status \in 400..499
             /\ blacklistedIPs'[req.Body.IP] = blacklistedIPs[req.Body.IP]
             /\ redisBlacklist'[req.Body.IP] = redisBlacklist[req.Body.IP]
             /\ UNCHANGED <<whitelistedIPs, redisWhitelist>>]_vars

\* C23: every GET /health request is answered 200, whatever the state of
\* the caller's key.
C23_HealthAlways200 ==
    [][\A req \in MgmtRequests :
          (req.Method = "GET" /\ req.Path = "/health" /\ ProtectionMiddleware(req, 0))
          => resp'.status = 200]_vars

\* The IP manager holds no blacklist entry for k, neither in its map nor,
\* with Redis configured, under the key "blacklist:"+k.
NoBlacklistEntry(k) ==
    /\ blacklistedIPs[k] = NoEntry
    /\ redisEnabled => redisBlacklist[k] = NoEntry

\* A step of the middleware that calls BlacklistIP for k: the blacklist
\* route with k in the body, or a request of k that the rate limiter or the
\* botnet detector has blacklisted.
BlacklistsKey(k) ==
    \E req \in MgmtRequests :
        /\ ProtectionMiddleware(req, 0)
        /\ \/ Route(req) = "blacklist" /\ req.Body.IP = k /\ resp'.handler
           \/ getClientIPMemo[req] = k /\ MiddlewareBlacklists(req, Stage(req))

\* C28: a DELETE /api/v1/ip/blacklist/k answered 200 leaves no blacklist
\* entry for k; a key without an entry gets one only by a BlacklistIP call
\* for it; and a key without an entry is not blacklisted and its requests
\* are not denied with BLOCKED_IP.
C28_RemovalRoundTrip ==
    [][\A k \in Keys :
          /\ \A req \in MgmtRequests :
                (Route(req) = "unblacklist" /\ RouteIP(req) = k
                 /\ Served(req) /\ resp'.status = 200)
                => NoBlacklistEntry(k)'
          /\ (NoBlacklistEntry(k) /\ ~NoBlacklistEntry(k)') => BlacklistsKey(k)
          /\ NoBlacklistEntry(k) => ~IsBlacklisted(k)
          /\ \A req \in MgmtRequests :
                (NoBlacklistEntry(k) /\ getClientIPMemo[req] = k
                 /\ ProtectionMiddleware(req, 0))
                => resp'.code # "BLOCKED_IP"]_vars

\* C28 witness: the DELETE route has just removed a live blacklist entry of
\* a key that is not whitelisted.
C28_Witness ==
    /\ ret.op = "Request"
    /\ resp.handler /\ resp.status = 200
    /\ "removed" \in DOMAIN ret
    /\ ret.entry # NoEntry /\ now < ret.entry
    /\ ~IsWhitelisted(ret.removed)
    /\ NoBlacklistEntry(ret.removed)

\* C29: from the tick after a blacklist call for a key k that is not
\* whitelisted was answered 200, and for the hour that follows it, every
\* request of k is denied with 403 BLOCKED_IP, unless k was removed from the
\* blacklist or blacklisting is disabled.
C29_AddBlacklistTakesEffect ==
    [][\A post \in MgmtRequests, get \in MgmtRequests :
          (/\ Route(post) = "blacklist"
           /\ getClientIPMemo[get] = post.Body.IP
           /\ lease[post.Body.IP] # <<>>
           /\ lease[post.Body.IP][2] = RouteDuration(post)
           /\ lease[post.Body.IP][1] < now
           /\ now < lease[post.Body.IP][1] + 3600 * TicksPerSec
           /\ ~IsWhitelisted(post.Body.IP)
           /\ config.IPBlacklist.Enabled
           /\ ProtectionMiddleware(get, 0))
          => resp'.status = 403 /\ resp'.code = "BLOCKED_IP"]_vars

\* ------------------------------------------- ring and queue specification

\* The client sends RingSends requests.
RingSends == 105

\* A burst that admits every request of the run, and the alert threshold 1.
RingConfig == [BaseConfig EXCEPT !.RateLimit.BurstSize = 200]

\* NewProtectionService with RingConfig and no Redis.
InitRing ==
    /\ now = 0
    /\ ret = Ret("init", "", TRUE, "")
    /\ IdleIP
    /\ config = RingConfig
    /\ tbLimit = config.RateLimit.RequestsPerMinute
    /\ tbBurst = config.RateLimit.BurstSize
    /\ tbLimiters = [k \in Keys |-> <<>>]
    /\ tbCalls = [k \in Keys |-> 0]
    /\ tbAdmits = [k \in Keys |-> 0]
    /\ tbFresh = [k \in Keys |-> FALSE]
    /\ IdleRL
    /\ IdleSW
    /\ IdleHC
    /\ InitStages

\* One client repeats its request; the first two requests take 0 or 2 ms,
\* the others 0 ms, and the client may pause for ten seconds once, after
\* its 58th, 59th or 60th request.  Nothing reads the alert channel.
NextRing ==
    \/ \E ms \in {0} \cup HandlerTimes :
          /\ requestsSent < RingSends
          /\ ms = 0 \/ requestsSent < 2
          /\ ProtectionMiddleware(RingRequest, ms)
    \/ now = 0 /\ requestsSent \in 58..60 /\ Sleep(10 * TicksPerSec)

SpecRing == InitRing /\ [][NextRing]_vars

\* C24: the alert channel never holds more than 100 alerts; a request that
\* is recorded leaves the alerts already queued in place, at the head of the
\* channel, so that a full channel is left as it is; and the request is
\* recorded and answered all the same.
C24_BoundedAlertQueue ==
    [][(requestsSent' = requestsSent + 1)
       => /\ Len(alertChan') <= 100
          /\ SubSeq(alertChan', 1, Len(alertChan)) = alertChan
          /\ resp'.handler =>
                Count(requestCounts', MonitorClientIP(RingRequest))
                    = Count(requestCounts, MonitorClientIP(RingRequest)) + 1]_vars

\* C24 witness: a request has been recorded and served although its alerts
\* met a channel holding 100 alerts.
C24_Witness ==
    /\ Len(alertChan) = 100
    /\ resp.handler
    /\ Count(requestCounts, MonitorClientIP(RingRequest)) = RingSends
    /\ checkAlerts(MonitorClientIP(RingRequest), RingSends,
                   responseTimes[MonitorClientIP(RingRequest)]) # <<>>

\* r2 is the ring r after one insertion: one entry longer while r holds
\* fewer than 100 entries, else r without its oldest entry and with one new
\* entry at the end.
RingInsert(r, r2) ==
    IF Len(r) < 100
    THEN Len(r2) = Len(r) + 1 /\ SubSeq(r2, 1, Len(r)) = r
    ELSE Len(r2) = 100 /\ SubSeq(r2, 1, 99) = Tail(r)

\* The three rings of the key whose requests are sent.
IntervalRing == getOrCreateIPBehavior(getClientIPMemo[RingRequest]).RequestIntervals
ResponseRing == getOrCreateIPBehavior(getClientIPMemo[RingRequest]).ResponseTimes
MonitorRing ==
    IF MonitorClientIP(RingRequest) \in DOMAIN responseTimes
    THEN responseTimes[MonitorClientIP(RingRequest)] ELSE <<>>

\* C27: the detector's interval ring and response-time ring and the
\* monitor's response-time ring hold at most 100 entries in every state, and
\* a request that reaches them inserts one entry into each, dropping the
\* oldest entry of a full ring.
C27_RingCap ==
    [][/\ Len(IntervalRing') <= 100
       /\ Len(ResponseRing') <= 100
       /\ Len(MonitorRing') <= 100
       /\ (requestsSent' = requestsSent + 1 /\ resp'.handler)
          => /\ RingInsert(IntervalRing, IntervalRing')
             /\ RingInsert(ResponseRing, ResponseRing')
             /\ RingInsert(MonitorRing, MonitorRing')]_vars

\* C27 witness: each ring was full and has dropped entries: the key has
\* sent more than 100 requests, and the 2 ms of its first request are no
\* longer in the monitor's ring.
C27_Witness ==
    /\ Len(IntervalRing) = 100
    /\ Len(ResponseRing) = 100
    /\ Len(MonitorRing) = 100
    /\ getOrCreateIPBehavior(getClientIPMemo[RingRequest]).RequestCount > 101
    /\ Count(requestCounts, MonitorClientIP(RingRequest)) > 101
    /\ errorCounts = EmptyMap
    /\ \A i \in 1..100 : MonitorRing[i] = 0

\* ------------------------------------------- sweeper specification

\* The period of the sweeper's ticker, 5 minutes, which is also the window
\* of the filter's request history.
SweepPeriod == 300 * TicksPerSec

\* The clients send their requests at time 0 and then stop; the clock
\* advances by one period of the sweeper at a time, three times, and the
\* sweeper runs.
NextSweep ==
    \/ \E req \in Requests :
          now = 0 /\ requestsSent < MaxRequests /\ ProtectionMiddleware(req, 0)
    \/ now < 3 * SweepPeriod /\ Sleep(SweepPeriod)
    \/ cleanupRoutine

\* The ticker fires again and again, and time passes.
SpecSweep ==
    /\ InitStage
    /\ [][NextSweep]_vars
    /\ WF_vars(cleanupRoutine)
    /\ WF_vars(now < 3 * SweepPeriod /\ Sleep(SweepPeriod))

\* The service holds an entry for the key k: an expired blacklist entry, a
\* request history under an address k's requests come from, a behaviour
\* record of the botnet detector, or a token bucket.
KeyTracked(k) ==
    \/ blacklistedIPs[k] # NoEntry /\ now > blacklistedIPs[k]
    \/ \E r \in Requests :
          getClientIPMemo[r] = k /\ r.RemoteAddr \in DOMAIN requestHistory
    \/ requestPatterns[k] # <<>>
    \/ tbLimiters[k] # <<>>

\* C25: the entries the four stores hold for a key that sent its requests
\* at time 0 and then stopped are eventually all removed.
C25_SweptEventually ==
    \A k \in Keys : (now = 0 /\ KeyTracked(k)) ~> ~KeyTracked(k)

\* ------------------------------------------- lazy eviction specification

\* IsBlacklisted(ip) up to the point where it has released the read lock:
\* when it has met an expired local entry it is left waiting for the write
\* lock, with the delete still to do (resp holds the call in flight); in
\* every other case it runs to its end.
IsBlacklistedStart(ip) ==
    /\ resp.code # "IsBlacklisted"
    /\ IF /\ ~IsWhitelisted(ip)
          /\ blacklistedIPs[ip] # NoEntry
          /\ ~(now < blacklistedIPs[ip])
       THEN /\ resp' = [status |-> 0, code |-> "IsBlacklisted", handler |-> FALSE,
                        ip |-> ip]
            /\ UNCHANGED <<now, ret, ipVars, tbVars, rlVars, swVars, hcVars, config,
                           requestsSent, rfVars, bdVars, tmVars>>
       ELSE IsBlacklistedCall(ip)

\* The rest of that call: it takes the write lock, deletes the key from the
\* local map without looking at the entry again, and consults Redis.
IsBlacklistedEvict ==
    /\ resp.code = "IsBlacklisted"
    /\ blacklistedIPs' = [blacklistedIPs EXCEPT ![resp.ip] = NoEntry]
    /\ ret' = Ret("IsBlacklistedEvict", resp.ip,
                  redisEnabled /\ redisUp /\ RedisBlacklistExists(resp.ip), "")
    /\ resp' = [status |-> 0, code |-> "", handler |-> FALSE]
    /\ UNCHANGED <<now, redisEnabled, redisUp, whitelistedIPs, redisBlacklist,
                   redisWhitelist, lease, tbVars, rlVars, swVars, hcVars, config,
                   requestsSent, rfVars, bdVars, tmVars>>

\* The IP manager without Redis, its calls interleaved at the points where
\* they take and release its mutex.
NextEvict ==
    \/ \E ip \in Keys, d \in 0..MaxDur : BlacklistIP(ip, d)
    \/ \E ip \in Keys : RemoveFromBlacklist(ip)
    \/ \E ip \in Keys : IsBlacklistedStart(ip)
    \/ IsBlacklistedEvict
    \/ CleanupExpiredEntries
    \/ Tick

SpecEvict == InitIdle /\ [][NextEvict]_vars

\* C26: while the lease of the last BlacklistIP(k, d) call runs (the call
\* has returned, k has not been removed since and is not whitelisted), every
\* IsBlacklisted(k) call that starts returns true.
C26_LinearizableWrites ==
    [][\A k \in Keys :
          (/\ lease[k] # <<>>
           /\ now < lease[k][1] + lease[k][2]
           /\ ~IsWhitelisted(k)
           /\ IsBlacklistedStart(k))
          => (ret'.op = "IsBlacklisted" /\ ret'.ip = k /\ ret'.ok)]_vars

\* ------------------------------------------- filter decision specification

\* The filter is called FreqCalls times at most for one address.
FreqCalls == 103

\* Four headers are inspected for malicious patterns.
FreqConfig ==
    [BaseConfig EXCEPT !.RequestFilter.SuspiciousHeaders =
        {"X-Forwarded-For", "X-Real-Ip", "X-Originating-Ip", "User-Agent"}]

\* NewRequestFilter with the four suspicious headers.
InitFreq ==
    /\ now = 0
    /\ ret = Ret("init", "", TRUE, "")
    /\ IdleIP
    /\ IdleTB
    /\ IdleRL
    /\ IdleSW
    /\ IdleHC
    /\ config = FreqConfig
    /\ InitStages

\* The filter is called with the requests of one address in any order, all
\* within one tick of the clock.
NextFreq ==
    \E req \in FreqRequests :
        /\ Len(RecentRequests(req.RemoteAddr)) < FreqCalls
        /\ FilterRequestCall(req)

SpecFreq == InitFreq /\ [][NextFreq]_vars

\* C30: a FilterRequest call returns allowed = not blocked, and it denies
\* exactly when the body is too large, the user agent is blocked, the URL
\* matches a malicious pattern, the address has more than 100 requests in
\* the last 5 minutes while the risk added up before that check exceeds 50,
\* or the risk added up over the checks that do not deny exceeds 100.
C30_FilterDecisionRule ==
    [][\A req \in FreqRequests :
          FilterRequestCall(req)
          => /\ ret'.result.Allowed = ~ret'.result.Blocked
             /\ ~ret'.result.Allowed
                <=> \/ req.ContentLength > config.RequestFilter.MaxRequestSize
                    \/ isBlockedUserAgent(req.UserAgent)
                    \/ hasMaliciousPatternMemo[req.Path \o req.RawQuery]
                    \/ /\ Len(RecentRequests(req.RemoteAddr)) > 100
                       /\ Cardinality(checkSuspiciousHeaders(req)) * 10 > 50
                    \/ Cardinality(checkSuspiciousHeaders(req)) * 10
                          + (IF Len(RecentRequests(req.RemoteAddr)) > 100
                             THEN 20 ELSE 0)
                          + (IF isSuspiciousMethodMemo[req.Method] THEN 15 ELSE 0)
                          + (IF hasMissingHeaders(req) THEN 10 ELSE 0) > 100]_vars

\* C21: an update of the rate-limit configuration with a value that is zero
\* or negative leaves the configuration and the limiter as they were.
C21_InvalidUpdateRejected ==
    [][\A p \in RatePairs :
          ((p[1] <= 0 \/ p[2] <= 0) /\ UpdateRateLimitConfig(p[1], p[2]))
          => UNCHANGED <<config, tbLimit, tbBurst, tbLimiters>>]_vars

\* ------------------------------------------- circuit breaker specification

\* Health checks, status calls and ticks of StartHealthChecks from two
\* goroutines, with the clock.
NextHC ==
    \/ \E g \in Goroutines : runHealthCheck(g)
    \/ \E g \in Goroutines, failed \in BOOLEAN : Check(g, failed)
    \/ \E g \in Goroutines : Record(g)
    \/ \E g \in Goroutines : updateCircuitBreakersLock(g)
    \/ \E g \in Goroutines : updateCircuitBreakers(g)
    \/ \E g \in Goroutines : GetCircuitBreakerStatusRLock(g)
    \/ \E g \in Goroutines : GetCircuitBreakerStatus(g)
    \/ Tick

SpecHC == InitIdle /\ [][NextHC]_vars

\* A goroutine inside a call goes on whenever it is not blocked; nothing
\* obliges a new call to start.
Proceeds(g) ==
    \/ \E failed \in BOOLEAN : Check(g, failed)
    \/ Record(g)
    \/ updateCircuitBreakers(g)
    \/ GetCircuitBreakerStatus(g)

SpecHCFair ==
    InitIdle /\ [][NextHC]_vars /\ \A g \in Goroutines : WF_vars(Proceeds(g))

\* A step that records a failure, and one that records a success.
FailureRecorded == cbHist'.failures = cbHist.failures + 1
SuccessRecorded == breaker'.successCount = breaker.successCount + 1

\* C36: circuit breaker opening.  A closed breaker opens exactly at the
\* recording of the third failure in a row; a failure recorded while it is
\* half-open opens it; while it is open and its timeout has not passed, no
\* health check is started and runHealthCheck answers "circuit_open".
C36_BreakerOpening ==
    [][/\ (breaker.state = StateClosed /\ FailureRecorded)
             => (breaker'.state = StateOpen <=> cbHist'.failures = failureThreshold)
       /\ (breaker.state = StateClosed /\ breaker'.state = StateOpen)
             => FailureRecorded
       /\ (breaker.state = StateHalfOpen /\ FailureRecorded)
             => breaker'.state = StateOpen
       /\ (breaker.state = StateOpen /\ ~TimeoutPassed(breaker))
             => /\ \A g \in Goroutines :
                      calls[g] = IdleCall => calls'[g].pc # "Check"
                /\ (ret'.op = "runHealthCheck" /\ ret' # ret)
                      => (~ret'.ok /\ ret'.err = "circuit_open")]_vars

\* The third failure in a row has opened the breaker and a health check was
\* then refused with "circuit_open".
C36_Witness ==
    /\ breaker.state = StateOpen
    /\ cbHist.failures = failureThreshold
    /\ ret.op = "runHealthCheck"
    /\ ret.err = "circuit_open"

\* C38: circuit breaker closing.  A half-open breaker closes only when at
\* least successThreshold successes were recorded while it was half-open,
\* and an open breaker never closes in one step.
C38_BreakerClosing ==
    [][/\ (breaker.state = StateHalfOpen /\ breaker'.state = StateClosed)
             => cbHist'.halfOpenSuccesses >= successThreshold
       /\ ~(breaker.state = StateOpen /\ breaker'.state = StateClosed)]_vars

\* C39: no deadlock on breaker status.  Every GetCircuitBreakerStatus call
\* that has taken the breaker's read lock returns.
C39_StatusReturns ==
    \A g \in Goroutines :
        (calls[g].op = "GetCircuitBreakerStatus") ~> (calls[g] = IdleCall)

\* ------------------------------------------- Redis pipeline specification

\* RedisLimiter.Allow between two commands of its pipeline: the key, the
\* time.Now() of the call and the reply of ZCARD.
PipeCall(pc, key, t, count) ==
    [op |-> "RedisLimiter.Allow", pc |-> pc, key |-> key, t |-> t, count |-> count]

\* rl.client.Pipeline() sends the four commands in one batch without
\* MULTI/EXEC: the server runs them in order, and commands of other
\* connections may run between them.  The first command, ZREMRANGEBYSCORE.
AllowZRemRangeByScore(g, key) ==
    /\ calls[g] = IdleCall
    /\ redisUp
    /\ Len(rlZset[key]) < MaxZset
    /\ rlZset' = [rlZset EXCEPT ![key] = ZRemOld(@, Unix(now) - rlWindow)]
    /\ calls' = [calls EXCEPT ![g] = PipeCall("ZCard", key, now, 0)]
    /\ UNCHANGED <<now, ret, rlLimit, rlWindow, rlTTL, rlAdmitTimes, breaker,
                   cbHist, cbMu, ipVars, tbVars, swVars, pipeVars>>

\* The second command, ZCARD: the reply is the number of entries now stored.
AllowZCard(g) ==
    /\ calls[g].op = "RedisLimiter.Allow"
    /\ calls[g].pc = "ZCard"
    /\ calls' = [calls EXCEPT ![g] =
           PipeCall("ZAdd", @.key, @.t, Len(rlZset[@.key]))]
    /\ UNCHANGED <<now, ret, rlVars, breaker, cbHist, cbMu, ipVars, tbVars,
                   swVars, pipeVars>>

\* The third command, ZADD with the second of the call as score.
AllowZAdd(g) ==
    /\ calls[g].op = "RedisLimiter.Allow"
    /\ calls[g].pc = "ZAdd"
    /\ rlZset' = [rlZset EXCEPT ![calls[g].key] = Append(@, Unix(calls[g].t))]
    /\ calls' = [calls EXCEPT ![g] = PipeCall("Expire", @.key, @.t, @.count)]
    /\ UNCHANGED <<now, ret, rlLimit, rlWindow, rlTTL, rlAdmitTimes, breaker,
                   cbHist, cbMu, ipVars, tbVars, swVars, pipeVars>>

\* The fourth command, EXPIRE, then the return of Allow: whether the reply
\* of ZCARD is below the limit.
AllowExpire(g) ==
    /\ calls[g].op = "RedisLimiter.Allow"
    /\ calls[g].pc = "Expire"
    /\ rlTTL' = [rlTTL EXCEPT ![calls[g].key] = now + rlWindow * TicksPerSec]
    /\ rlAdmitTimes' = [rlAdmitTimes EXCEPT ![calls[g].key] =
           IF RedisAllowResult(FALSE, calls[g].count)
           THEN Append(InWindow(@, now), calls[g].t)
           ELSE InWindow(@, now)]
    /\ calls' = [calls EXCEPT ![g] = IdleCall]
    /\ ret' = Ret("RedisLimiter.Allow", calls[g].key,
                  RedisAllowResult(FALSE, calls[g].count), "")
    /\ UNCHANGED <<now, rlLimit, rlWindow, rlZset, breaker, cbHist, cbMu,
                   ipVars, tbVars, swVars, pipeVars>>

\* Two callers, of one instance or of several, call Allow at one instant with
\* Redis reachable; their pipelines reach the server in any order.
NextRLPipe ==
    \/ \E g \in Goroutines, k \in Keys : AllowZRemRangeByScore(g, k)
    \/ \E g \in Goroutines : AllowZCard(g)
    \/ \E g \in Goroutines : AllowZAdd(g)
    \/ \E g \in Goroutines : AllowExpire(g)

SpecRLPipe == InitRLOnly /\ [][NextRLPipe]_vars

\* C31: sliding-window atomicity.  Of the Allow(k) calls that run within one
\* window, concurrently or not, at most limit return true.
C31_PipelineAtomic ==
    \A k \in Keys : Len(rlAdmitTimes[k]) <= rlLimit

\* ------------------------------------------- claims: alert-driven promotion

\* A step of handleAlert that consumes a high_request_rate alert.
HighRateAlertHandled ==
    /\ alertChan # <<>>
    /\ alertChan' = Tail(alertChan)
    /\ ret'.op = "handleAlert"
    /\ Head(alertChan).Type = "high_request_rate"

\* C32: alert-driven promotion reaches the offender.  When handleAlert
\* consumes a high_request_rate alert raised for the requests of a client
\* that is not whitelisted, the key it blacklists is the client key of those
\* requests, and with blacklisting enabled and a lease that has not run out
\* the client's next request is answered BLOCKED_IP.
C32_AlertReachesOffender ==
    [][HighRateAlertHandled
       => \A r \in Requests :
             (/\ MonitorClientIP(r) = Head(alertChan).IP
              /\ ~IsWhitelisted(getClientIPMemo[r])
              /\ config.IPBlacklist.Enabled
              /\ BlacklistDuration > 0)
             => /\ ret'.ip = getClientIPMemo[r]
                /\ Stage(r)' = "reputation"]_vars

\* ------------------------------------------------- claims: network indicator

\* The client keys of ip's network bucket the detector has observed, ip
\* among them.
KeysSeenOfNetwork(ip) ==
    {ip} \cup {k \in Keys : /\ requestPatterns[k] # <<>>
                            /\ getNetworkFromIPMemo[k] = getNetworkFromIPMemo[ip]}

\* C33: the indicator "High IP count from network" is part of a request's
\* analysis only if more than 100 distinct client keys of the request's
\* network bucket have been observed; requests of a single key never raise it.
C33_NetworkIndicator ==
    [][(RequestStep /\ requestPatterns' # requestPatterns)
       => (analyzeNetwork(Count(networkRanges, getNetworkFromIPMemo[ret'.ip]) + 1)
               # <<>>
           => Cardinality(KeysSeenOfNetwork(ret'.ip)) > 100)]_vars

\* ---------------------------------------------------- claims: botnet stage

\* The step is request r taking ms through the middleware as far as the
\* botnet detector, whose analysis says botnet.
BotnetVerdict(r, ms) ==
    /\ ProtectionMiddleware(r, ms)
    /\ requestPatterns' # requestPatterns
    /\ AnalyzeRequest(getClientIPMemo[r], r.UserAgent, r.Path, 0).IsBotnet

KeyXForwardedFor ==
    {"", "10.0.1.2", "10.0.1.2, 10.0.0.9", "10.0.1.2 ,10.0.0.9",
     ",10.0.0.9", " , 10.0.0.9", ","}
KeyXRealIP == {"", "10.0.1.2", "10.0.0.9", " "}
KeyRemoteAddr == {"10.0.0.1:4000", "10.0.0.9:4000", "10.0.0.9"}

KeyRequests ==
    { Req(a, xff, xri, "Mozilla/5.0", "GET", "/", 0, <<>>) :
          a \in KeyRemoteAddr, xff \in KeyXForwardedFor, xri \in KeyXRealIP }

\* A request arrives at the middleware.
Arrive(req) ==
    /\ ret.op # "arrive"
    /\ ret' = [op |-> "arrive", req |-> req]
    /\ UNCHANGED <<now, ipVars, tbVars, rlVars, swVars, pipeVars, hcVars>>

\* The middleware's first statement: clientIP := ps.getClientIP(c).
ExtractClientIP ==
    /\ ret.op = "arrive"
    /\ ret' = Ret("getClientIP", getClientIP(ret.req), TRUE, "")
                  @@ [req |-> ret.req]
    /\ UNCHANGED <<now, ipVars, tbVars, rlVars, swVars, pipeVars, hcVars>>

NextKey ==
    \/ \E req \in KeyRequests : Arrive(req)
    \/ ExtractClientIP

SpecKey == InitIdle /\ [][NextKey]_vars

\* C35: client-key extraction.  The key is the trimmed first element of
\* X-Forwarded-For when the header is present, else X-Real-IP when present,
\* else the peer address without its port; every request gets a key, and the
\* key is never the empty string, whatever the headers.
C35_ClientKey ==
    ret.op = "getClientIP"
    => /\ ret.ok
       /\ ret.ip = IF ret.req.XForwardedFor # ""
                   THEN TrimSpace(Split(ret.req.XForwardedFor, ",")[1])
                   ELSE IF ret.req.XRealIP # "" THEN TrimSpace(ret.req.XRealIP)
                   ELSE Cut(ret.req.RemoteAddr, ":")[1]
       /\ ret.ip # ""

\* ------------------------------------------- blacklist listing specification

\* IPManager.GetBlacklistedIPs, the keys of the map it returns: the entries
\* of the local map that have not expired.
GetBlacklistedIPs == {ip \in Addrs : blacklistedIPs[ip] # NoEntry /\ now < blacklistedIPs[ip]}

\* A call of GetBlacklistedIPs (GET /api/v1/ip/blacklist); it only reads.
GetBlacklistedIPsCall ==
    /\ ret' = [op |-> "GetBlacklistedIPs", ips |-> GetBlacklistedIPs]
    /\ UNCHANGED <<now, nonIpVars, ipVars>>

\* The operations of the IP manager and the clock, with Redis either absent
\* or answering throughout.
NextList ==
    \/ \E ip \in Keys, d \in 0..MaxDur : BlacklistIP(ip, d)
    \/ \E ip \in Keys : WhitelistIP(ip)
    \/ \E ip \in Keys : RemoveFromBlacklist(ip)
    \/ \E ip \in Keys : RemoveFromWhitelist(ip)
    \/ \E ip \in Keys : IsBlacklistedCall(ip)
    \/ CleanupExpiredEntries
    \/ Tick
    \/ GetBlacklistedIPsCall

SpecList == InitIP /\ [][NextList]_vars

\* C37: the listing is consistent with the lookup.  Every key that
\* GetBlacklistedIPs returns is one for which IsBlacklisted answers true at
\* that moment, after any sequence of blacklist and whitelist operations.
C37_ListingConsistent ==
    ret.op = "GetBlacklistedIPs" => \A k \in ret.ips : IsBlacklisted(k)

\* ------------------------------------------- claims: limiter state kept

\* C40: reconfiguration preserves the limiter state of each key.  A key that
\* Allow has just denied, and would deny again at this instant, is still
\* denied right after UpdateRateLimitConfig is called with the parameters
\* already configured: the update hands no tokens back.
C40_UpdateKeepsBuckets ==
    [][\A k \in Keys :
          (/\ ret = Ret("TokenBucketLimiter.Allow", k, FALSE, "")
           /\ ~TokenBucketAllows(k)
           /\ UpdateRateLimitConfig(config.RateLimit.RequestsPerMinute,
                                    config.RateLimit.BurstSize))
          => ~TokenBucketAllows(k)']_vars

====
